---- MODULE Spec2Model ----
(***************************************************************************)
(* The runtime of the fault tolerant LL(k) recursive descent parser        *)
(* (class Parser of parser_public.ts): the DSL primitives, the rule        *)
(* wrapper, backtracking and the three tiers of error recovery, run on a   *)
(* small grammar over every short token vector.                            *)
(***************************************************************************)
EXTENDS Integers, Sequences, FiniteSets, TLC

\* ------------------------------------------------------------------------
\* Bounds
\* ------------------------------------------------------------------------
MaxLen == 3

\* ------------------------------------------------------------------------
\* Tokens.  A token class is a string; B2 is a subclass of B, so that
\* "instanceof" and "constructor ===" differ as they do in the source.
\* ------------------------------------------------------------------------
EOF == "EOF"

TokenTypes == {"A", "B", "C", "D", "B2"}

SuperOf(t) == IF t = "B2" THEN "B" ELSE ""

\* the token classes of the JSON-like grammar
JsonTokenTypes ==
    {"LCurly", "RCurly", "LSquare", "RSquare", "Comma", "Colon", "StringLiteral", "NumberLiteral"}

\* a Token instance: its class, its position in the input vector
\* (-1: not a token of the input) and the isInsertedInRecovery flag
Tok(t, pos) == [t |-> t, pos |-> pos, ins |-> FALSE]

NewEOF == Tok(EOF, -1)

InstanceOf(tok, tokClass) == tok.t = tokClass \/ SuperOf(tok.t) = tokClass

\* ------------------------------------------------------------------------
\* The grammar: the bodies of the rules, as the DSL calls they make.
\* The same tree is the GAST of the rule ("Action" is user code that
\* is no DSL call: it is no part of the GAST and derives nothing).
\* ------------------------------------------------------------------------
Prod(type, tok, occ, name, def, pred) ==
    [type |-> type, tok |-> tok, occ |-> occ, name |-> name, def |-> def, pred |-> pred]

Terminal(tok, occ) == Prod("Terminal", tok, occ, "", <<>>, "")
NonTerminal(name, occ) == Prod("NonTerminal", "", occ, name, <<>>, "")
Option(def, occ, pred) == Prod("Option", "", occ, "", def, pred)
Repetition(def, occ) == Prod("Repetition", "", occ, "", def, "")
RepetitionMandatory(def, occ) == Prod("RepetitionMandatory", "", occ, "", def, "")
\* the separator class of a repetition with separator is its tok
RepetitionWithSeparator(def, separator, occ) ==
    Prod("RepetitionWithSeparator", separator, occ, "", def, "")
RepetitionMandatoryWithSeparator(def, separator, occ) ==
    Prod("RepetitionMandatoryWithSeparator", separator, occ, "", def, "")
\* an alternation: its definition is one Flat per alternative
Flat(def) == Prod("Flat", "", 0, "", def, "")
Alternation(alts, occ) == Prod("Alternation", "", occ, "", alts, "")
UserAction == Prod("Action", "", 0, "", <<>>, "")

\* the DSL call with a user predicate (no part of the GAST)
Gated(prod, predicate) == [prod EXCEPT !.pred = predicate]

RuleNames == {"S", "X", "Y", "Z", "O", "P", "M", "Q", "R"}

\* the rules of the JSON-like grammar
JsonRuleNames == {"json", "object", "objectItem", "array", "value"}

\* every rule of the grammar class
GrammarRuleNames == RuleNames \cup JsonRuleNames

\* S := SUBRULE(X) CONSUME(D)
\* X := CONSUME(A) MANY(SUBRULE(Y)) CONSUME(B)
\* Y := OPTION(BACKTRACK(Z), SUBRULE(Z)) CONSUME(C) <user action>   -- resyncEnabled: false
\* Z := CONSUME(D) MANY(CONSUME(A)) CONSUME2(D) <user action>
\* O := OR([ CONSUME(A) CONSUME(B) | SUBRULE(Z) | CONSUME(C) ])
\* P := AT_LEAST_ONE(noErrors, CONSUME(A) CONSUME(D)) CONSUME(B)
\* M := MANY(noErrors, CONSUME(A) CONSUME(D)) CONSUME(B)
\* Q := MANY_SEP(C, CONSUME(A)) CONSUME(B)
\* R := AT_LEAST_ONE_SEP(C, CONSUME(A)) CONSUME(B)
\* json := OR([ SUBRULE(object) | SUBRULE(array) ])
\* object := CONSUME(LCurly) MANY_SEP(Comma, SUBRULE(objectItem)) CONSUME(RCurly)
\* objectItem := CONSUME(StringLiteral) CONSUME(Colon) SUBRULE(value)
\* array := CONSUME(LSquare) MANY_SEP(Comma, CONSUME(NumberLiteral)) CONSUME(RSquare)
\* value := OR([ CONSUME(StringLiteral) | CONSUME(NumberLiteral) | SUBRULE(object) | SUBRULE(array) ])
\* U := SUBRULE(Missing) CONSUME(A)            -- refers to a rule that does not exist
\* L := OPTION(CONSUME(A)) SUBRULE(L) CONSUME(B)             -- left recursive
RuleDef(name) ==
    CASE name = "S" -> << NonTerminal("X", 1), Terminal("D", 1) >>
      [] name = "X" -> << Terminal("A", 1), Repetition(<< NonTerminal("Y", 1) >>, 1), Terminal("B", 1) >>
      [] name = "Y" -> << Option(<< NonTerminal("Z", 1) >>, 1, "Z"), Terminal("C", 1), UserAction >>
      [] name = "Z" -> << Terminal("D", 1), Repetition(<< Terminal("A", 1) >>, 1), Terminal("D", 2), UserAction >>
      [] name = "O" -> << Alternation(<< Flat(<< Terminal("A", 1), Terminal("B", 1) >>),
                                         Flat(<< NonTerminal("Z", 1) >>),
                                         Flat(<< Terminal("C", 1) >>) >>, 1) >>
      [] name = "P" -> << Gated(RepetitionMandatory(<< Terminal("A", 1), Terminal("D", 1) >>, 1), "noErrors"),
                          Terminal("B", 1) >>
      [] name = "M" -> << Gated(Repetition(<< Terminal("A", 1), Terminal("D", 1) >>, 1), "noErrors"),
                          Terminal("B", 1) >>
      [] name = "Q" -> << RepetitionWithSeparator(<< Terminal("A", 1) >>, "C", 1), Terminal("B", 1) >>
      [] name = "R" -> << RepetitionMandatoryWithSeparator(<< Terminal("A", 1) >>, "C", 1), Terminal("B", 1) >>
      [] name = "json" -> << Alternation(<< Flat(<< NonTerminal("object", 1) >>),
                                            Flat(<< NonTerminal("array", 1) >>) >>, 1) >>
      [] name = "object" -> << Terminal("LCurly", 1),
                               RepetitionWithSeparator(<< NonTerminal("objectItem", 1) >>, "Comma", 1),
                               Terminal("RCurly", 1) >>
      [] name = "objectItem" -> << Terminal("StringLiteral", 1), Terminal("Colon", 1),
                                   NonTerminal("value", 1) >>
      [] name = "array" -> << Terminal("LSquare", 1),
                              RepetitionWithSeparator(<< Terminal("NumberLiteral", 1) >>, "Comma", 1),
                              Terminal("RSquare", 1) >>
      [] name = "value" -> << Alternation(<< Flat(<< Terminal("StringLiteral", 1) >>),
                                             Flat(<< Terminal("NumberLiteral", 1) >>),
                                             Flat(<< NonTerminal("object", 1) >>),
                                             Flat(<< NonTerminal("array", 1) >>) >>, 1) >>
      \* rules of the grammar classes that have definition errors
      [] name = "U" -> << NonTerminal("Missing", 1), Terminal("A", 1) >>
      [] name = "L" -> << Option(<< Terminal("A", 1) >>, 1, ""), NonTerminal("L", 1), Terminal("B", 1) >>
      \* a reference the resolver could not bind has no definition
      [] OTHER -> << >>

\* IRuleConfig.resyncEnabled of each rule
RuleResyncEnabled(name) == name # "Y"

\* ------------------------------------------------------------------------
\* Self analysis of the grammar: lookahead paths, FIRST, FOLLOW and the
\* grammar walkers.  The runtime below only consults their results.
\* ------------------------------------------------------------------------

\* the k-bounded lookahead paths of a sequence of productions: every
\* sequence of at most k token classes that begins a derivation of it
\* (a path shorter than k is a whole derivation)
RECURSIVE PathsOfSeq(_, _)
PathsOfProd(prod, k) ==
    CASE prod.type = "Terminal" -> { << prod.tok >> }
      [] prod.type = "NonTerminal" -> PathsOfSeq(RuleDef(prod.name), k)
      [] prod.type = "Option" -> { << >> } \cup PathsOfSeq(prod.def, k)
      [] prod.type = "Repetition" -> { << >> } \cup PathsOfSeq(prod.def \o << prod >>, k)
      [] prod.type = "RepetitionMandatory" ->
            PathsOfSeq(prod.def \o << Repetition(prod.def, prod.occ) >>, k)
      [] prod.type = "RepetitionWithSeparator" ->
            { << >> } \cup PathsOfSeq(prod.def \o
                << Repetition(<< Terminal(prod.tok, 0) >> \o prod.def, prod.occ) >>, k)
      [] prod.type = "RepetitionMandatoryWithSeparator" ->
            PathsOfSeq(prod.def \o
                << Repetition(<< Terminal(prod.tok, 0) >> \o prod.def, prod.occ) >>, k)
      [] prod.type = "Alternation" ->
            UNION { PathsOfSeq(prod.def[i].def, k) : i \in 1 .. Len(prod.def) }
      [] OTHER -> { << >> }

PathsOfSeq(seq, k) ==
    IF k = 0 \/ seq = << >> THEN { << >> }
    ELSE UNION { IF Len(p) = k THEN { p }
                 ELSE { p \o q : q \in PathsOfSeq(Tail(seq), k - Len(p)) }
                 : p \in PathsOfProd(Head(seq), k) }

\* FIRST of a sequence of productions (one token of lookahead)
First(seq) == { p[1] : p \in { q \in PathsOfSeq(seq, 1) : q # << >> } }

CanBeEmpty(seq) == << >> \in PathsOfSeq(seq, 1)

\* what is left to parse after the production `target` of a definition:
\* the rest of the definition, a further iteration of every repetition
\* that encloses the production, then the rest `outer` of what encloses
\* the definition.  A set: empty when the production is not in `seq`.
RECURSIVE RestAfter(_, _, _)
RestAfter(seq, target, outer) ==
    UNION { LET prod == seq[i]
                rest == SubSeq(seq, i + 1, Len(seq)) \o outer
                again == Repetition(<< Terminal(prod.tok, 0) >> \o prod.def, prod.occ)
            IN  IF prod.type = target.type /\ prod.occ = target.occ
                   /\ prod.tok = target.tok /\ prod.name = target.name
                THEN { rest }
                ELSE IF prod.type = "Repetition"
                THEN RestAfter(prod.def, target, << prod >> \o rest)
                ELSE IF prod.type = "RepetitionMandatory"
                THEN RestAfter(prod.def, target, << Repetition(prod.def, prod.occ) >> \o rest)
                ELSE IF prod.type \in { "RepetitionWithSeparator", "RepetitionMandatoryWithSeparator" }
                THEN RestAfter(prod.def, target, << again >> \o rest)
                ELSE IF prod.type = "Alternation"
                THEN UNION { RestAfter(prod.def[j].def, target, rest) : j \in 1 .. Len(prod.def) }
                ELSE IF prod.def # << >>
                THEN RestAfter(prod.def, target, rest)
                ELSE { }
            : i \in 1 .. Len(seq) }

\* the SUBRULE calls made in a definition: <<callee, occurrence>>
RECURSIVE SubRuleCalls(_)
SubRuleCalls(seq) ==
    UNION { IF seq[i].type = "NonTerminal" THEN { << seq[i].name, seq[i].occ >> }
            ELSE SubRuleCalls(seq[i].def)
            : i \in 1 .. Len(seq) }

\* the productions of a DSL kind with an occurrence index in a definition
RECURSIVE FindProds(_, _, _)
FindProds(seq, type, occ) ==
    UNION { (IF seq[i].type = type /\ seq[i].occ = occ THEN { seq[i] } ELSE { })
            \cup FindProds(seq[i].def, type, occ)
            : i \in 1 .. Len(seq) }

IN_SEP == "IN"

\* the key of a SUBRULE call site in the FOLLOW table
FollowName(ruleName, idxInCallingRule, inRule) ==
    ruleName \o ToString(idxInCallingRule) \o IN_SEP \o inRule

\* FOLLOW of the call SUBRULE<occ>(ruleName) made in inRule: FIRST of what
\* is left of inRule after the call and, when that can be empty, FOLLOW of
\* inRule over all its call sites
RECURSIVE FollowOfRule(_, _)
FollowOfCall(ruleName, occ, inRule, depth) ==
    UNION { First(rest) \cup (IF CanBeEmpty(rest) /\ depth > 0
                              THEN FollowOfRule(inRule, depth - 1) ELSE { })
            : rest \in RestAfter(RuleDef(inRule), NonTerminal(ruleName, occ), << >>) }

FollowOfRule(ruleName, depth) ==
    UNION { UNION { FollowOfCall(ruleName, c[2], q, depth)
                    : c \in { d \in SubRuleCalls(RuleDef(q)) : d[1] = ruleName } }
            : q \in GrammarRuleNames }

\* the FOLLOW table of the class: FollowName -> set of token classes
computeAllProdsFollows ==
    LET sites == UNION { { << c[1], c[2], q >> : c \in SubRuleCalls(RuleDef(q)) } : q \in GrammarRuleNames }
        keys  == { FollowName(s[1], s[2], s[3]) : s \in sites }
    IN  [ key \in keys |->
            LET s == CHOOSE s \in sites : FollowName(s[1], s[2], s[3]) = key
            IN  FollowOfCall(s[1], s[2], s[3], Cardinality(GrammarRuleNames)) ]

\* the lookahead paths of the interior of the OPTION / MANY with an
\* occurrence index in a rule
InsidePaths(type, occ, ruleName, k) ==
    UNION { PathsOfSeq(prod.def, k) : prod \in FindProds(RuleDef(ruleName), type, occ) }

\* AbstractNextTerminalAfterProductionWalker: the production that directly
\* follows the repetition in its rule, when it is a terminal
NextTerminalAfterProd(type, ruleName, occ) ==
    LET reps  == FindProds(RuleDef(ruleName), type, occ)
        rests == UNION { RestAfter(RuleDef(ruleName), rep, << >>) : rep \in reps }
        rest  == CHOOSE r \in rests : TRUE
    IN  IF rests = { } \/ rest = << >>
        THEN [token |-> "", occurrence |-> 0, isEndOfRule |-> TRUE]
        ELSE IF rest[1].type = "Terminal"
        THEN [token |-> rest[1].tok, occurrence |-> rest[1].occ, isEndOfRule |-> FALSE]
        ELSE [token |-> "", occurrence |-> 0, isEndOfRule |-> FALSE]

NextTerminalAfterMany(ruleName, occ) == NextTerminalAfterProd("Repetition", ruleName, occ)

\* NextAfterTokenWalker: the token classes that may follow the terminal
\* CONSUME<lastTokOccurrence>(lastTok) of the rule on top of the path's rule
\* stack, through the rest of every rule of the path
RECURSIVE RestOfPath(_, _)
RestOfPath(ruleStack, occurrenceStack) ==
    IF Len(ruleStack) < 2 THEN { << >> }
    ELSE LET n == Len(ruleStack)
         IN  { here \o up :
                 here \in RestAfter(RuleDef(ruleStack[n - 1]),
                                    NonTerminal(ruleStack[n], occurrenceStack[n]), << >>),
                 up \in RestOfPath(SubSeq(ruleStack, 1, n - 1), SubSeq(occurrenceStack, 1, n - 1)) }

NextAfterToken(grammarPath) ==
    LET n == Len(grammarPath.ruleStack)
    IN  UNION { First(here \o up) :
                  here \in RestAfter(RuleDef(grammarPath.ruleStack[n]),
                                     Terminal(grammarPath.lastTok, grammarPath.lastTokOccurrence), << >>),
                  up \in RestOfPath(grammarPath.ruleStack, grammarPath.occurrenceStack) }

\* ------------------------------------------------------------------------
\* The parser instance
\* ------------------------------------------------------------------------
MaxErrors == 3
MaxLookahead == 2

VARIABLES
    input,                  \* _input: the token vector (the class of each token)
    recoveryEnabled,        \* IParserConfig.recoveryEnabled
    maxLookahead,           \* IParserConfig.maxLookahead
    topRule,                \* the rule the user invokes first
    inputIdx,
    savedTokenIdx,
    errors,
    RULE_STACK,
    RULE_OCCURRENCE_STACK,
    isBackTrackingStack,
    frames,                 \* the call stack: rule wrappers, DSL bodies, BACKTRACK functions
    exc,                    \* the exception being thrown, NoException when none
    ret,                    \* the value the last call returned
    pstate,                 \* "idle", "parsing", "returned" or "threw" (the top rule invocation);
                            \* "noInstance", "failed" or "deferred" (the construction)
    nextErrId,              \* identity of the next exception object
    ev,                     \* the last operation, with the state it started from
    raised,                 \* the recognition exceptions thrown outside backtracking, in order
    className,              \* the name of the grammar class ("" for an anonymous class)
    grammarDefect,          \* what is wrong in the definition of the grammar class
    DEFER_DEFINITION_ERRORS_HANDLING,
    cache,                  \* the entries of the class in the process wide cache
    gast,                   \* the GAST production handed to cloneProduction, and its clone
    stats                   \* what the constructions and parses of the class did, in order

\* the grammar class and the static flag do not change
classVars == << className, grammarDefect, DEFER_DEFINITION_ERRORS_HANDLING, gast >>

vars == << input, recoveryEnabled, maxLookahead, topRule, inputIdx, savedTokenIdx, errors,
           RULE_STACK, RULE_OCCURRENCE_STACK, isBackTrackingStack, frames, exc, ret,
           pstate, nextErrId, ev, raised, className, grammarDefect,
           DEFER_DEFINITION_ERRORS_HANDLING, cache, stats, gast >>

\* all token vectors of at most n tokens
RECURSIVE Inputs(_)
Inputs(n) == IF n = 0 THEN { << >> }
             ELSE Inputs(n - 1) \cup { Append(v, t) : v \in Inputs(n - 1), t \in TokenTypes }

\* F applied to a value that is computed once (a local of the code)
Bind(value, F(_)) == CHOOSE result \in { F(v) : v \in { value } } : TRUE

Last(seq) == seq[Len(seq)]
DropLast(seq) == SubSeq(seq, 1, Len(seq) - 1)

\* utils.dropRight
dropRight(seq) == IF seq = << >> THEN << >> ELSE DropLast(seq)

\* --- the lexer facing methods -----------------------------------------
LA(idx, howMuch) ==
    IF Len(input) <= idx + howMuch THEN NewEOF
    ELSE Tok(input[idx + howMuch + 1], idx + howMuch)

consumeToken(idx) == idx + 1

\* SKIP_TOKEN that consumes a token wherever the index is
SKIP_TOKEN_AlwaysConsumes(idx) ==
    [idx |-> consumeToken(idx), tok |-> LA(consumeToken(idx), 1)]

\* skips a token and returns the next token
SKIP_TOKEN(idx) ==
    IF idx <= Len(input) - 2
    THEN [idx |-> consumeToken(idx), tok |-> LA(consumeToken(idx), 1)]
    ELSE [idx |-> idx, tok |-> NewEOF]

isAtEndOfInput(idx) == InstanceOf(LA(idx, 1), EOF)

isBackTracking == isBackTrackingStack # << >>

\* --- exceptions --------------------------------------------------------
NoException ==
    [id |-> 0, type |-> "none", token |-> NewEOF, ruleStack |-> << >>,
     ruleOccurrenceStack |-> << >>, resyncedTokens |-> << >>]

NewException(type, token, id) ==
    [id |-> id, type |-> type, token |-> token, ruleStack |-> << >>,
     ruleOccurrenceStack |-> << >>, resyncedTokens |-> << >>]

\* isRecognitionException that holds of every exception
isRecognitionException_AnyException(e) ==
    e.type # "none"

isRecognitionException(e) ==
    e.type \in { "MismatchedTokenException", "NoViableAltException",
                 "EarlyExitException", "NotAllInputParsedException" }

\* SAVE_ERROR gives the exception its context and appends it to errors;
\* the exception with its context is what the caller then throws
WithContext(error, rs, ros) ==
    [error EXCEPT !.ruleStack = rs, !.ruleOccurrenceStack = ros]

\* SAVE_ERROR that saves whatever it is given
SAVE_ERROR_AnyError(errs, error, rs, ros) == Append(errs, WithContext(error, rs, ros))

\* an error that is no recognition exception is not saved: SAVE_ERROR throws
SAVE_ERROR(errs, error, rs, ros) ==
    IF isRecognitionException(error) THEN Append(errs, WithContext(error, rs, ros))
    ELSE errs

\* e.resyncedTokens = ... : the exception object is shared with errors
SetResyncedTokens(errs, id, toks) ==
    [i \in 1 .. Len(errs) |->
        IF errs[i].id = id THEN [errs[i] EXCEPT !.resyncedTokens = toks] ELSE errs[i]]

\* --- in-rule recovery: single token insertion / deletion ----------------
getCurrentGrammarPath(tokClass, tokIdxInRule) ==
    [ruleStack |-> RULE_STACK, occurrenceStack |-> RULE_OCCURRENCE_STACK,
     lastTok |-> tokClass, lastTokOccurrence |-> tokIdxInRule]

getNextPossibleTokenTypes(grammarPath) == NextAfterToken(grammarPath)

getFollowsForInRuleRecovery(tokClass, tokIdxInRule) ==
    getNextPossibleTokenTypes(getCurrentGrammarPath(tokClass, tokIdxInRule))

getTokenToInsert(tokClass) == Tok(tokClass, -1)

\* canTokenTypeBeInsertedInRecovery of a parser that inserts no token
canTokenTypeBeInsertedInRecovery_Never(tokClass) == FALSE

canTokenTypeBeInsertedInRecovery(tokClass) == TRUE

\* canRecoverWithSingleTokenInsertion that inserts when nothing may follow
canRecoverWithSingleTokenInsertion_AtEndOfRule(expectedTokType, follows) ==
    IF ~canTokenTypeBeInsertedInRecovery(expectedTokType) THEN FALSE
    ELSE IF follows = { } THEN TRUE
    ELSE \E possibleFollowsTokType \in follows :
            InstanceOf(LA(inputIdx, 1), possibleFollowsTokType)

canRecoverWithSingleTokenInsertion(expectedTokType, follows) ==
    IF ~canTokenTypeBeInsertedInRecovery(expectedTokType) THEN FALSE
    ELSE IF follows = { } THEN FALSE
    ELSE \E possibleFollowsTokType \in follows :
            InstanceOf(LA(inputIdx, 1), possibleFollowsTokType)

canRecoverWithSingleTokenDeletion(expectedTokType) ==
    InstanceOf(LA(inputIdx, 2), expectedTokType)

canPerformInRuleRecovery(expectedToken, follows) ==
    canRecoverWithSingleTokenInsertion(expectedToken, follows)
    \/ canRecoverWithSingleTokenDeletion(expectedToken)

\* tryInRuleRecovery that prefers single token deletion to insertion
tryInRuleRecovery_DeletionFirst(expectedTokType, follows) ==
    IF canRecoverWithSingleTokenDeletion(expectedTokType)
    THEN LET skipped == SKIP_TOKEN(inputIdx)
         IN  [out |-> "delete", idx |-> consumeToken(skipped.idx), tok |-> skipped.tok]
    ELSE IF canRecoverWithSingleTokenInsertion(expectedTokType, follows)
    THEN [out |-> "insert", idx |-> inputIdx,
          tok |-> [getTokenToInsert(expectedTokType) EXCEPT !.ins = TRUE]]
    ELSE [out |-> "InRuleRecoveryException", idx |-> inputIdx, tok |-> NewEOF]

\* the token returned and the new input index, or InRuleRecoveryException
tryInRuleRecovery(expectedTokType, follows) ==
    IF canRecoverWithSingleTokenInsertion(expectedTokType, follows)
    THEN [out |-> "insert", idx |-> inputIdx,
          tok |-> [getTokenToInsert(expectedTokType) EXCEPT !.ins = TRUE]]
    ELSE IF canRecoverWithSingleTokenDeletion(expectedTokType)
    THEN LET skipped == SKIP_TOKEN(inputIdx)
         IN  [out |-> "delete", idx |-> consumeToken(skipped.idx), tok |-> skipped.tok]
    ELSE [out |-> "InRuleRecoveryException", idx |-> inputIdx, tok |-> NewEOF]

\* --- CONSUME -------------------------------------------------------------
\* consumeInternalOptimized that throws the exception without SAVE_ERROR
consumeInternalOptimized_ThrowsUnsaved(expectedTokClass) ==
    LET nextToken == LA(inputIdx, 1)
    IN  IF InstanceOf(nextToken, expectedTokClass)
        THEN [out |-> "match", idx |-> consumeToken(inputIdx), tok |-> nextToken,
              errors |-> errors, e |-> NoException]
        ELSE [out |-> "throw", idx |-> inputIdx, tok |-> NewEOF, errors |-> errors,
              e |-> NewException("MismatchedTokenException", nextToken, nextErrId)]

consumeInternalOptimized(expectedTokClass) ==
    LET nextToken == LA(inputIdx, 1)
        e == WithContext(NewException("MismatchedTokenException", nextToken, nextErrId),
                         RULE_STACK, RULE_OCCURRENCE_STACK)
    IN  IF InstanceOf(nextToken, expectedTokClass)
        THEN [out |-> "match", idx |-> consumeToken(inputIdx), tok |-> nextToken,
              errors |-> errors, e |-> NoException]
        ELSE [out |-> "throw", idx |-> inputIdx, tok |-> NewEOF,
              errors |-> SAVE_ERROR(errors, NewException("MismatchedTokenException", nextToken, nextErrId),
                                    RULE_STACK, RULE_OCCURRENCE_STACK),
              e |-> e]

\* consumeInternal that tries in-rule recovery whatever recoveryEnabled says
consumeInternal_IgnoresRecoveryEnabled(tokClass, idx) ==
    LET r == consumeInternalOptimized(tokClass)
    IN  IF r.out = "match" THEN r
        ELSE IF r.e.type = "MismatchedTokenException" /\ ~isBackTracking
        THEN LET rec == tryInRuleRecovery(tokClass, getFollowsForInRuleRecovery(tokClass, idx))
             IN  IF rec.out = "InRuleRecoveryException" THEN r
                 ELSE [r EXCEPT !.out = rec.out, !.idx = rec.idx, !.tok = rec.tok]
        ELSE r

\* consumeInternal that tries in-rule recovery also while backtracking
consumeInternal_RecoversWhileBacktracking(tokClass, idx) ==
    LET r == consumeInternalOptimized(tokClass)
    IN  IF r.out = "match" THEN r
        ELSE IF recoveryEnabled /\ r.e.type = "MismatchedTokenException"
        THEN LET rec == tryInRuleRecovery(tokClass, getFollowsForInRuleRecovery(tokClass, idx))
             IN  IF rec.out = "InRuleRecoveryException" THEN r
                 ELSE [r EXCEPT !.out = rec.out, !.idx = rec.idx, !.tok = rec.tok]
        ELSE r

\* consumeInternal that lets the InRuleRecoveryException escape
consumeInternal_ThrowsInRuleRecoveryException(tokClass, idx) ==
    LET r == consumeInternalOptimized(tokClass)
    IN  IF r.out = "match" THEN r
        ELSE IF recoveryEnabled /\ r.e.type = "MismatchedTokenException" /\ ~isBackTracking
        THEN LET rec == tryInRuleRecovery(tokClass, getFollowsForInRuleRecovery(tokClass, idx))
             IN  IF rec.out = "InRuleRecoveryException"
                 THEN [r EXCEPT !.e = NewException("InRuleRecoveryException", NewEOF, nextErrId)]
                 ELSE [r EXCEPT !.out = rec.out, !.idx = rec.idx, !.tok = rec.tok]
        ELSE r

consumeInternal(tokClass, idx) ==
    LET r == consumeInternalOptimized(tokClass)
    IN  IF r.out = "match" THEN r
        ELSE IF recoveryEnabled /\ r.e.type = "MismatchedTokenException" /\ ~isBackTracking
        THEN LET follows == getFollowsForInRuleRecovery(tokClass, idx)
                 rec == tryInRuleRecovery(tokClass, follows)
             IN  IF rec.out = "InRuleRecoveryException"
                 THEN r     \* throw the original error to trigger reSync recovery
                 ELSE [r EXCEPT !.out = rec.out, !.idx = rec.idx, !.tok = rec.tok]
        ELSE r

\* --- between rules re-sync ----------------------------------------------
EOF_FOLLOW_KEY == [ruleName |-> "", idxInCallingRule |-> 0, inRule |-> ""]

getCurrFollowKey ==
    IF Len(RULE_STACK) = 1 THEN EOF_FOLLOW_KEY
    ELSE LET currRuleIdx == Len(RULE_STACK)
         IN  [ruleName |-> RULE_STACK[currRuleIdx],
              idxInCallingRule |-> RULE_OCCURRENCE_STACK[currRuleIdx],
              inRule |-> RULE_STACK[currRuleIdx - 1]]

buildFullFollowKeyStack ==
    [idx \in 1 .. Len(RULE_STACK) |->
        IF idx = 1 THEN EOF_FOLLOW_KEY
        ELSE [ruleName |-> RULE_STACK[idx],
              idxInCallingRule |-> RULE_OCCURRENCE_STACK[idx],
              inRule |-> RULE_STACK[idx - 1]]]

getFollowSetFromFollowKey(followKey) ==
    IF followKey = EOF_FOLLOW_KEY THEN { EOF }
    ELSE LET followName == FollowName(followKey.ruleName, followKey.idxInCallingRule, followKey.inRule)
         IN  IF followName \in DOMAIN cache.resyncFollows
             THEN cache.resyncFollows[followName] ELSE { }

flattenFollowSet ==
    UNION { getFollowSetFromFollowKey(buildFullFollowKeyStack[i]) : i \in 1 .. Len(RULE_STACK) }

\* isInCurrentRuleReSyncSet that accepts every token class of the flattened
\* FOLLOW stack
isInCurrentRuleReSyncSet_AnyFollowOfStack(token) == token \in flattenFollowSet

isInCurrentRuleReSyncSet(token) == token \in getFollowSetFromFollowKey(getCurrFollowKey)

\* the class (constructor) of the first token at or after LA(1) that is in
\* the flattened FOLLOW stack
RECURSIVE findReSyncLoop(_, _)
findReSyncLoop(allPossibleReSyncTokTypes, k) ==
    LET nextTokenType == LA(inputIdx, k).t
    IN  IF nextTokenType \in allPossibleReSyncTokTypes THEN nextTokenType
        ELSE findReSyncLoop(allPossibleReSyncTokTypes, k + 1)

\* findReSyncTokenType that begins its search at LA(2)
findReSyncTokenType_FromSecondToken == findReSyncLoop(flattenFollowSet, 2)

findReSyncTokenType == findReSyncLoop(flattenFollowSet, 1)

addToResyncTokens(token, resyncTokens) ==
    IF ~InstanceOf(token, EOF) THEN Append(resyncTokens, token) ELSE resyncTokens

RECURSIVE reSyncLoop(_, _, _, _)
reSyncLoop(tokClass, idx, nextTok, resyncedTokens) ==
    IF InstanceOf(nextTok, tokClass)
    THEN [idx |-> idx, resyncedTokens |-> dropRight(resyncedTokens)]  \* the last token is not part of the error
    ELSE LET skipped == SKIP_TOKEN(idx)
         IN  reSyncLoop(tokClass, skipped.idx, skipped.tok,
                        addToResyncTokens(skipped.tok, resyncedTokens))

reSyncTo(tokClass) == reSyncLoop(tokClass, inputIdx, LA(inputIdx, 1), << >>)

\* --- lookahead decisions ---------------------------------------------------
\* a decision function that compares the classes of the tokens for equality
LookaheadMatches_ExactClass(idx, paths) ==
    \E path \in paths :
        /\ path # << >>
        /\ \A i \in 1 .. Len(path) : LA(idx, i).t = path[i]

\* a decision function: does the lookahead window at idx begin one of the paths
LookaheadMatches(idx, paths) ==
    \E path \in paths :
        /\ path # << >>
        /\ \A i \in 1 .. Len(path) : InstanceOf(LA(idx, i), path[i])

\* the decision function of an OR: the index of the first alternative one of
\* whose paths the lookahead window begins, -1 when there is none
OrLookahead(idx, pathsPerAlt) ==
    LET viable == { i \in 1 .. Len(pathsPerAlt) : LookaheadMatches(idx, pathsPerAlt[i]) }
    IN  IF viable = { } THEN -1
        ELSE (CHOOSE i \in viable : \A j \in viable : i <= j) - 1

\* a user predicate of the grammar, evaluated on the parser
PredicateHolds(predicate, errs) ==
    predicate = "noErrors" => errs = << >>

\* the lookahead function a repetition loops on: the decision function
\* wrapped with the user predicate, or the test for the separator
LoopLookahead(paths, predicate, separator) ==
    [paths |-> paths, predicate |-> predicate, separator |-> separator]

\* a lookahead function that does not call the user predicate
CallLookahead_IgnoresPredicate(lookAheadFunc, idx, errs) ==
    IF lookAheadFunc.separator # ""
    THEN InstanceOf(LA(idx, 1), lookAheadFunc.separator)
    ELSE LookaheadMatches(idx, lookAheadFunc.paths)

\* calling the lookahead function a repetition loops on
CallLookahead(lookAheadFunc, idx, errs) ==
    IF lookAheadFunc.separator # ""
    THEN InstanceOf(LA(idx, 1), lookAheadFunc.separator)
    ELSE PredicateHolds(lookAheadFunc.predicate, errs)
         /\ LookaheadMatches(idx, lookAheadFunc.paths)

\* --- the lookahead functions of the class, built on first use ---------------
\* the key of a construct; the keys are kept per DSL kind (prodKeys), occurrence
\* and rule, a key once stored is the one returned
getKeyForAutomaticLookahead(c, prodName, prodKeys, occurrence) ==
    LET currRule == Last(RULE_STACK)
        slot == << prodKeys, occurrence, currRule >>
    IN  IF slot \in DOMAIN c.lookaheadKeys
        THEN [key |-> c.lookaheadKeys[slot], cache |-> c]
        ELSE LET key == prodName \o ToString(occurrence) \o IN_SEP \o currRule
             IN  [key |-> key, cache |-> [c EXCEPT !.lookaheadKeys = @ @@ (slot :> key)]]

\* a built decision function: the construct and the k it was built with
buildLookaheadFunc(type, occurrence, ruleName, k) ==
    [type |-> type, occ |-> occurrence, ruleName |-> ruleName, k |-> k]

\* the paths a built decision function compares the lookahead window with
LaFuncPaths(laFunc) == InsidePaths(laFunc.type, laFunc.occ, laFunc.ruleName, laFunc.k)

\* ... of an OR: the paths of each alternative
LaFuncPathsPerAlt(laFunc) ==
    LET alternation == CHOOSE prod \in FindProds(RuleDef(laFunc.ruleName), "Alternation", laFunc.occ) : TRUE
    IN  [i \in 1 .. Len(alternation.def) |-> PathsOfSeq(alternation.def[i].def, laFunc.k)]

\* getLookaheadFuncFor that builds the function on every call
getLookaheadFuncFor_AlwaysBuilds(c, st, key, occurrence, type, k) ==
    LET laFunc == buildLookaheadFunc(type, occurrence, Last(RULE_STACK), k)
    IN  [laFunc |-> laFunc, key |-> key,
         cache |-> [c EXCEPT !.classLAFuncs =
                       [x \in DOMAIN @ \cup { key } |-> IF x = key THEN laFunc ELSE @[x]]],
         stats |-> [st EXCEPT !.laBuilds = Append(@, key)]]

\* getLookaheadFuncFor that keeps only the function it built last
getLookaheadFuncFor_KeepsLastOnly(c, st, key, occurrence, type, k) ==
    IF key \in DOMAIN c.classLAFuncs
    THEN [laFunc |-> c.classLAFuncs[key], key |-> key, cache |-> c, stats |-> st]
    ELSE LET laFunc == buildLookaheadFunc(type, occurrence, Last(RULE_STACK), k)
         IN  [laFunc |-> laFunc, key |-> key,
              cache |-> [c EXCEPT !.classLAFuncs = (key :> laFunc)],
              stats |-> [st EXCEPT !.laBuilds = Append(@, key)]]

\* getLookaheadFuncFor that adapts the cached function to the maxLookahead
\* of the instance that asks for it
getLookaheadFuncFor_InstanceLookahead(c, st, key, occurrence, type, k) ==
    IF key \in DOMAIN c.classLAFuncs
    THEN [laFunc |-> [c.classLAFuncs[key] EXCEPT !.k = k], key |-> key, cache |-> c, stats |-> st]
    ELSE LET laFunc == buildLookaheadFunc(type, occurrence, Last(RULE_STACK), k)
         IN  [laFunc |-> laFunc, key |-> key,
              cache |-> [c EXCEPT !.classLAFuncs = @ @@ (key :> laFunc)],
              stats |-> [st EXCEPT !.laBuilds = Append(@, key)]]

getLookaheadFuncFor(c, st, key, occurrence, type, k) ==
    IF key \in DOMAIN c.classLAFuncs
    THEN [laFunc |-> c.classLAFuncs[key], key |-> key, cache |-> c, stats |-> st]
    ELSE LET laFunc == buildLookaheadFunc(type, occurrence, Last(RULE_STACK), k)
         IN  [laFunc |-> laFunc, key |-> key,
              cache |-> [c EXCEPT !.classLAFuncs = @ @@ (key :> laFunc)],
              stats |-> [st EXCEPT !.laBuilds = Append(@, key)]]

getLookaheadFuncForOr(c, st, occurrence) ==
    Bind(getKeyForAutomaticLookahead(c, "OR", "orLookaheadKeys", occurrence), LAMBDA k :
        getLookaheadFuncFor(k.cache, st, k.key, occurrence, "Alternation", maxLookahead))

getLookaheadFuncForOption(c, st, occurrence) ==
    Bind(getKeyForAutomaticLookahead(c, "OPTION", "optionLookaheadKeys", occurrence), LAMBDA k :
        getLookaheadFuncFor(k.cache, st, k.key, occurrence, "Option", maxLookahead))

getLookaheadFuncForMany(c, st, occurrence) ==
    Bind(getKeyForAutomaticLookahead(c, "MANY", "manyLookaheadKeys", occurrence), LAMBDA k :
        getLookaheadFuncFor(k.cache, st, k.key, occurrence, "Repetition", maxLookahead))

getLookaheadFuncForManySep(c, st, occurrence) ==
    Bind(getKeyForAutomaticLookahead(c, "MANY_SEP", "manySepLookaheadKeys", occurrence), LAMBDA k :
        getLookaheadFuncFor(k.cache, st, k.key, occurrence, "RepetitionWithSeparator", maxLookahead))

getLookaheadFuncForAtLeastOne(c, st, occurrence) ==
    Bind(getKeyForAutomaticLookahead(c, "AT_LEAST_ONE", "atLeastOneLookaheadKeys", occurrence), LAMBDA k :
        getLookaheadFuncFor(k.cache, st, k.key, occurrence, "RepetitionMandatory", maxLookahead))

getLookaheadFuncForAtLeastOneSep(c, st, occurrence) ==
    Bind(getKeyForAutomaticLookahead(c, "AT_LEAST_ONE_SEP", "atLeastOneSepLookaheadKeys", occurrence), LAMBDA k :
        getLookaheadFuncFor(k.cache, st, k.key, occurrence, "RepetitionMandatoryWithSeparator", maxLookahead))

\* the occurrence-key table and the name a DSL kind passes to the recovery
ProdKeysOf(type) ==
    CASE type = "Repetition" -> "manyLookaheadKeys"
      [] type = "RepetitionMandatory" -> "atLeastOneLookaheadKeys"
      [] type = "RepetitionWithSeparator" -> "manySepLookaheadKeys"
      [] type = "RepetitionMandatoryWithSeparator" -> "atLeastOneSepLookaheadKeys"

ProdNameOf(type, occurrence) ==
    (CASE type = "Repetition" -> "MANY"
       [] type = "RepetitionMandatory" -> "AT_LEAST_ONE"
       [] type = "RepetitionWithSeparator" -> "MANY_SEP"
       [] type = "RepetitionMandatoryWithSeparator" -> "AT_LEAST_ONE_SEP") \o ToString(occurrence)

\* --- in-repetition recovery --------------------------------------------------
\* shouldInRepetitionRecoveryBeTried that does not ask whether the parser is
\* backtracking
shouldInRepetitionRecoveryBeTried_InBacktracking(expectTokAfterLastMatch, nextTokIdx) ==
    IF expectTokAfterLastMatch = "" \/ nextTokIdx = 0 THEN FALSE
    ELSE IF InstanceOf(LA(inputIdx, 1), expectTokAfterLastMatch) THEN FALSE
    ELSE IF canPerformInRuleRecovery(expectTokAfterLastMatch,
                getFollowsForInRuleRecovery(expectTokAfterLastMatch, nextTokIdx)) THEN FALSE
    ELSE TRUE

shouldInRepetitionRecoveryBeTried(expectTokAfterLastMatch, nextTokIdx) ==
    IF expectTokAfterLastMatch = "" \/ nextTokIdx = 0 THEN FALSE
    ELSE IF InstanceOf(LA(inputIdx, 1), expectTokAfterLastMatch) THEN FALSE
    ELSE IF isBackTracking THEN FALSE
    ELSE IF canPerformInRuleRecovery(expectTokAfterLastMatch,
                getFollowsForInRuleRecovery(expectTokAfterLastMatch, nextTokIdx)) THEN FALSE
    ELSE TRUE

RECURSIVE repetitionRecoveryLoop(_, _, _, _, _, _)
repetitionRecoveryLoop(lookAheadFunc, expectedTokType, reSyncTokType, idx, currToken, resyncedTokens) ==
    IF InstanceOf(currToken, expectedTokType)
    THEN [out |-> "exit", idx |-> idx, resyncedTokens |-> resyncedTokens]
    ELSE IF CallLookahead(lookAheadFunc, idx, errors)
    THEN [out |-> "reenter", idx |-> idx, resyncedTokens |-> resyncedTokens]
    ELSE IF InstanceOf(currToken, reSyncTokType)
    THEN [out |-> "giveup", idx |-> idx, resyncedTokens |-> resyncedTokens]
    ELSE LET skipped == SKIP_TOKEN(idx)
         IN  repetitionRecoveryLoop(lookAheadFunc, expectedTokType, reSyncTokType, skipped.idx,
                                    skipped.tok, addToResyncTokens(skipped.tok, resyncedTokens))

\* tryInRepetitionRecovery that re-syncs without recording the error
tryInRepetitionRecovery_NoError(lookAheadFunc, expectedTokType) ==
    LET reSyncTokType == findReSyncTokenType
        saved == inputIdx                                  \* saveLexerState
        nextTokenWithoutResync == LA(inputIdx, 1)
        loop == repetitionRecoveryLoop(lookAheadFunc, expectedTokType, reSyncTokType,
                                       inputIdx, LA(inputIdx, 1), << >>)
        error == [NewException("MismatchedTokenException", nextTokenWithoutResync, nextErrId)
                    EXCEPT !.resyncedTokens = dropRight(loop.resyncedTokens)]
    IN  IF loop.out = "giveup"
        THEN [out |-> "giveup", idx |-> saved, savedTokenIdx |-> saved,      \* restoreLexerState
              errors |-> errors, nextErrId |-> nextErrId]
        ELSE [out |-> loop.out, idx |-> loop.idx, savedTokenIdx |-> saved,
              errors |-> errors,
              nextErrId |-> nextErrId + 1]

\* tryInRepetitionRecovery that gives up without restoreLexerState
tryInRepetitionRecovery_NoRestore(lookAheadFunc, expectedTokType) ==
    LET reSyncTokType == findReSyncTokenType
        saved == inputIdx                                  \* saveLexerState
        nextTokenWithoutResync == LA(inputIdx, 1)
        loop == repetitionRecoveryLoop(lookAheadFunc, expectedTokType, reSyncTokType,
                                       inputIdx, LA(inputIdx, 1), << >>)
        error == [NewException("MismatchedTokenException", nextTokenWithoutResync, nextErrId)
                    EXCEPT !.resyncedTokens = dropRight(loop.resyncedTokens)]
    IN  IF loop.out = "giveup"
        THEN [out |-> "giveup", idx |-> loop.idx, savedTokenIdx |-> saved,
              errors |-> errors, nextErrId |-> nextErrId]
        ELSE [out |-> loop.out, idx |-> loop.idx, savedTokenIdx |-> saved,
              errors |-> SAVE_ERROR(errors, error, RULE_STACK, RULE_OCCURRENCE_STACK),
              nextErrId |-> nextErrId + 1]

\* the new lexer state and errors, and whether the repetition is entered again
tryInRepetitionRecovery(lookAheadFunc, expectedTokType) ==
    LET reSyncTokType == findReSyncTokenType
        saved == inputIdx                                  \* saveLexerState
        nextTokenWithoutResync == LA(inputIdx, 1)
        loop == repetitionRecoveryLoop(lookAheadFunc, expectedTokType, reSyncTokType,
                                       inputIdx, LA(inputIdx, 1), << >>)
        error == [NewException("MismatchedTokenException", nextTokenWithoutResync, nextErrId)
                    EXCEPT !.resyncedTokens = dropRight(loop.resyncedTokens)]
    IN  IF loop.out = "giveup"
        THEN [out |-> "giveup", idx |-> saved, savedTokenIdx |-> saved,      \* restoreLexerState
              errors |-> errors, nextErrId |-> nextErrId]
        ELSE [out |-> loop.out, idx |-> loop.idx, savedTokenIdx |-> saved,
              errors |-> SAVE_ERROR(errors, error, RULE_STACK, RULE_OCCURRENCE_STACK),
              nextErrId |-> nextErrId + 1]

\* the first terminal after the repetition is computed on first use and kept
\* in firstAfterRepMap
attemptInRepetitionRecovery(c, lookaheadFunc, type, prodOccurrence) ==
    Bind(getKeyForAutomaticLookahead(c, ProdNameOf(type, prodOccurrence), ProdKeysOf(type),
                                     prodOccurrence), LAMBDA k :
    Bind(IF k.key \in DOMAIN k.cache.firstAfterRepMap
         THEN k.cache.firstAfterRepMap[k.key]
         ELSE NextTerminalAfterProd(type, Last(RULE_STACK), prodOccurrence), LAMBDA firstAfterRepInfo :
    Bind(LET topMostEnd == Len(RULE_STACK) = 1 /\ firstAfterRepInfo.isEndOfRule
                           /\ firstAfterRepInfo.token = ""
             expectTokAfterLastMatch == IF topMostEnd THEN EOF ELSE firstAfterRepInfo.token
             nextTokIdx == IF topMostEnd THEN 1 ELSE firstAfterRepInfo.occurrence
         IN  IF shouldInRepetitionRecoveryBeTried(expectTokAfterLastMatch, nextTokIdx)
             THEN tryInRepetitionRecovery(lookaheadFunc, expectTokAfterLastMatch)
             ELSE [out |-> "none", idx |-> inputIdx, savedTokenIdx |-> savedTokenIdx,
                   errors |-> errors, nextErrId |-> nextErrId], LAMBDA r :
        [out |-> r.out, idx |-> r.idx, savedTokenIdx |-> r.savedTokenIdx, errors |-> r.errors,
         nextErrId |-> r.nextErrId,
         cache |-> IF k.key \in DOMAIN k.cache.firstAfterRepMap THEN k.cache
                   ELSE [k.cache EXCEPT !.firstAfterRepMap = @ @@ (k.key :> firstAfterRepInfo)]])))

\* the repetition ended: the recovery when it is enabled
afterRepetition(c, lookaheadFunc, type, prodOccurrence) ==
    IF recoveryEnabled
    THEN attemptInRepetitionRecovery(c, lookaheadFunc, type, prodOccurrence)
    ELSE [out |-> "none", idx |-> inputIdx, savedTokenIdx |-> savedTokenIdx,
          errors |-> errors, nextErrId |-> nextErrId, cache |-> c]

\* --- raiseNoAltException / raiseEarlyExitException -----------------------------
\* raiseNoAltException that does not save the error
raiseNoAltException_NotSaved(occurrence) ==
    [e |-> WithContext(NewException("NoViableAltException", LA(inputIdx, 1), nextErrId),
                       RULE_STACK, RULE_OCCURRENCE_STACK),
     errors |-> errors]

raiseNoAltException(occurrence) ==
    LET e == WithContext(NewException("NoViableAltException", LA(inputIdx, 1), nextErrId),
                         RULE_STACK, RULE_OCCURRENCE_STACK)
    IN  [e |-> e,
         errors |-> SAVE_ERROR(errors, NewException("NoViableAltException", LA(inputIdx, 1), nextErrId),
                               RULE_STACK, RULE_OCCURRENCE_STACK)]

\* raiseEarlyExitException that saves the error twice
raiseEarlyExitException_SavedTwice(occurrence) ==
    LET e == WithContext(NewException("EarlyExitException", LA(inputIdx, 1), nextErrId),
                         RULE_STACK, RULE_OCCURRENCE_STACK)
    IN  [e |-> e,
         errors |-> SAVE_ERROR(SAVE_ERROR(errors, e, RULE_STACK, RULE_OCCURRENCE_STACK),
                               e, RULE_STACK, RULE_OCCURRENCE_STACK)]

raiseEarlyExitException(occurrence) ==
    LET e == WithContext(NewException("EarlyExitException", LA(inputIdx, 1), nextErrId),
                         RULE_STACK, RULE_OCCURRENCE_STACK)
    IN  [e |-> e,
         errors |-> SAVE_ERROR(errors, NewException("EarlyExitException", LA(inputIdx, 1), nextErrId),
                               RULE_STACK, RULE_OCCURRENCE_STACK)]

\* --- rule wrapper state ---------------------------------------------------------
ruleInvocationStateUpdate(rs, ros, ruleName, idxInCallingRule) ==
    [rs |-> Append(rs, ruleName), ros |-> Append(ros, idxInCallingRule)]

\* ruleFinallyStateUpdate that forgets to pop the occurrence stack
ruleFinallyStateUpdate_KeepsOccurrence(rs, ros, idx, errs, id) ==
    LET rs2 == dropRight(rs)
    IN  IF Len(rs2) = 0 /\ ~isAtEndOfInput(idx)
        THEN [rs |-> rs2, ros |-> ros, nextErrId |-> id + 1,
              errors |-> SAVE_ERROR(errs, NewException("NotAllInputParsedException", LA(idx, 1), id),
                                    rs2, ros)]
        ELSE [rs |-> rs2, ros |-> ros, nextErrId |-> id, errors |-> errs]

\* ruleFinallyStateUpdate that checks for redundant input at every depth
ruleFinallyStateUpdate_AtEveryDepth(rs, ros, idx, errs, id) ==
    LET rs2 == dropRight(rs)
        ros2 == dropRight(ros)
    IN  IF ~isAtEndOfInput(idx)
        THEN [rs |-> rs2, ros |-> ros2, nextErrId |-> id + 1,
              errors |-> SAVE_ERROR(errs, NewException("NotAllInputParsedException", LA(idx, 1), id),
                                    rs2, ros2)]
        ELSE [rs |-> rs2, ros |-> ros2, nextErrId |-> id, errors |-> errs]

ruleFinallyStateUpdate(rs, ros, idx, errs, id) ==
    LET rs2 == dropRight(rs)
        ros2 == dropRight(ros)
    IN  IF Len(rs2) = 0 /\ ~isAtEndOfInput(idx)
        THEN [rs |-> rs2, ros |-> ros2, nextErrId |-> id + 1,
              errors |-> SAVE_ERROR(errs, NewException("NotAllInputParsedException", LA(idx, 1), id),
                                    rs2, ros2)]
        ELSE [rs |-> rs2, ros |-> ros2, nextErrId |-> id, errors |-> errs]

saveRecogState ==
    [errors |-> errors, lexerState |-> inputIdx, RULE_STACK |-> RULE_STACK]

NoRecogState == [errors |-> << >>, lexerState |-> -1, RULE_STACK |-> << >>]

\* --- the call stack ----------------------------------------------------------------
\* the parser state as an observer sees it
Snapshot ==
    [idx |-> inputIdx, errors |-> errors, rs |-> RULE_STACK, ros |-> RULE_OCCURRENCE_STACK,
     bt |-> Len(isBackTrackingStack)]

\* a frame: "rule" a rule wrapper running the rule's body, "seq" the body of
\* an OPTION / MANY / ... / alternative of an OR, "bt" a BACKTRACK decision
\* function; pc is the next DSL call of def, ph > 0 once the predicate or the
\* first iteration of that call has returned, iters the number of times that
\* call ran its action, seps its separatorsResult; orgState is what BACKTRACK
\* saved, atCall the parser state at the call
Frame(k, name, def, occ, orgState) ==
    [k |-> k, name |-> name, def |-> def, occ |-> occ, pc |-> 1, ph |-> 0,
     iters |-> 0, seps |-> << >>, orgState |-> orgState, atCall |-> Snapshot]

Top == frames[Len(frames)]

\* return from every finished OPTION / MANY body
RECURSIVE Norm(_)
Norm(fs) ==
    IF fs # << >> /\ Last(fs).k = "seq" /\ Last(fs).pc > Len(Last(fs).def)
    THEN Norm(DropLast(fs)) ELSE fs

\* an exception leaves every frame up to the nearest try block
RECURSIVE Unwind(_)
Unwind(fs) ==
    IF fs # << >> /\ Last(fs).k = "seq" THEN Unwind(DropLast(fs)) ELSE fs

\* the top frame with its pc moved past the current DSL call
Advance(fs) ==
    [fs EXCEPT ![Len(fs)].pc = @ + 1, ![Len(fs)].ph = 0, ![Len(fs)].iters = 0,
               ![Len(fs)].seps = << >>]

\* the top frame runs the action of its current DSL call once more
Iterate(fs, separators) ==
    Append([fs EXCEPT ![Len(fs)].ph = 1, ![Len(fs)].iters = @ + 1,
                      ![Len(fs)].seps = @ \o separators],
           Frame("seq", "", fs[Len(fs)].def[fs[Len(fs)].pc].def, fs[Len(fs)].def[fs[Len(fs)].pc].occ,
                 NoRecogState))

\* the in-repetition recovery calls the DSL method of the top frame's current
\* call again: a new invocation, which begins with its first test and has
\* run its action zero times
Reenter(fs) == [fs EXCEPT ![Len(fs)].ph = 0, ![Len(fs)].iters = 0]

Running == pstate = "parsing" /\ exc = NoException /\ frames # << >>
           /\ Top.k \in { "rule", "seq" } /\ Top.pc <= Len(Top.def)

Cur == Top.def[Top.pc]

Event(op, out) ==
    [op |-> op, out |-> out, pre |-> Snapshot, atCall |-> Snapshot, rule |-> "", occ |-> 0,
     tokClass |-> "", tok |-> NewEOF, e |-> NoException, follows |-> { }, resyncTo |-> "",
     key |-> "", first |-> FALSE, decision |-> FALSE, altToTake |-> -1, iters |-> 0,
     seps |-> << >>, preFrames |-> Len(frames)]

\* ------------------------------------------------------------------------
\* The grammar class: rule registration and self analysis
\* ------------------------------------------------------------------------
MaxInstances == 2
MaxClassLen == 2
MaxClassTokens == 2

\* the token vectors the instances of the class are constructed with: at most
\* MaxClassLen tokens of the first MaxClassTokens token classes
ClassTokenOrder == << "A", "D", "B", "C", "B2" >>

ClassInputs ==
    { v \in Inputs(MaxClassLen) :
        \A i \in 1 .. Len(v) : \E j \in 1 .. MaxClassTokens : v[i] = ClassTokenOrder[j] }

GrammarDefects == { "none", "duplicateRule", "unresolvedRef", "leftRecursion" }

\* the RULE calls the constructor of the grammar class makes, in order
ClassRules(defect) ==
    << "S", "X", "Y", "Z", "O", "P", "M", "Q", "R",
       "json", "object", "objectItem", "array", "value" >> \o
        (CASE defect = "duplicateRule" -> << "S" >>
           [] defect = "unresolvedRef" -> << "U" >>
           [] defect = "leftRecursion" -> << "L" >>
           [] OTHER -> << >>)

\* the entries of a class nothing was constructed of
EmptyCache ==
    [analysisDone |-> FALSE, hasDefinitionErrors |-> FALSE, definitionErrors |-> << >>,
     productions |-> { }, resyncFollows |-> << >>, classLAFuncs |-> << >>,
     lookaheadKeys |-> << >>, firstAfterRepMap |-> << >>]

EmptyStats ==
    [constructions |-> 0, gastBuilds |-> << >>, laBuilds |-> << >>, analysisLog |-> << >>,
     resolverErrors |-> << >>, thrown |-> << >>, refused |-> { }]

DefinitionError(type, ruleName) == [type |-> type, ruleName |-> ruleName]

\* validateRuleDoesNotAlreadyExist
validateRuleDoesNotAlreadyExist(ruleName, definedRulesNames) ==
    IF \E i \in 1 .. Len(definedRulesNames) : definedRulesNames[i] = ruleName
    THEN << DefinitionError("DUPLICATE_RULE_NAME", ruleName) >>
    ELSE << >>

\* RULE(name, implementation): registers the rule in the instance.  inst is
\* the instance under construction: its definedRulesNames and _productions;
\* definitionErrors is the list of the class, which the instance shares
RULE(name, inst, c, st) ==
    LET ruleErrors == validateRuleDoesNotAlreadyExist(name, inst.definedRulesNames)
        build == name \notin inst.productions
    IN  [inst |-> [definedRulesNames |-> Append(inst.definedRulesNames, name),
                   productions |-> IF build \/ name \in c.productions
                                   THEN inst.productions \cup { name } ELSE inst.productions],
         cache |-> [c EXCEPT !.definitionErrors = @ \o ruleErrors],
         stats |-> IF build
                   THEN [st EXCEPT !.gastBuilds = Append(@, << name, st.constructions >>)]
                   ELSE st]

RECURSIVE RegisterRules(_, _, _, _)
RegisterRules(names, inst, c, st) ==
    IF names = << >> THEN [inst |-> inst, cache |-> c, stats |-> st]
    ELSE LET r == RULE(Head(names), inst, c, st)
         IN  RegisterRules(Tail(names), r.inst, r.cache, r.stats)

\* the resolver: an error for every SUBRULE of a rule that is not defined
RECURSIVE resolveGrammar(_, _)
resolveGrammar(names, productions) ==
    IF names = << >> THEN << >>
    ELSE (IF \E call \in SubRuleCalls(RuleDef(Head(names))) : call[1] \notin productions
          THEN << DefinitionError("UNRESOLVED_SUBRULE_REF", Head(names)) >> ELSE << >>)
         \o resolveGrammar(Tail(names), productions)

\* the rules a definition may begin with
RECURSIVE FirstNonTerminals(_)
FirstNonTerminals(seq) ==
    IF seq = << >> THEN { }
    ELSE LET prod == Head(seq)
         IN  CASE prod.type = "NonTerminal" -> { prod.name }
               [] prod.type = "Terminal" -> { }
               [] prod.type \in { "Option", "Repetition", "RepetitionWithSeparator" } ->
                     FirstNonTerminals(prod.def) \cup FirstNonTerminals(Tail(seq))
               [] prod.type = "Alternation" ->
                     UNION { FirstNonTerminals(prod.def[i].def) : i \in 1 .. Len(prod.def) }
               [] OTHER -> FirstNonTerminals(prod.def)

RECURSIVE LeftReachable(_, _)
LeftReachable(rules, depth) ==
    IF depth = 0 THEN rules
    ELSE LeftReachable(rules \cup UNION { FirstNonTerminals(RuleDef(r)) : r \in rules }, depth - 1)

\* the validator: left recursion
RECURSIVE validateGrammar(_, _)
validateGrammar(names, productions) ==
    IF names = << >> THEN << >>
    ELSE (IF Head(names) \in LeftReachable(FirstNonTerminals(RuleDef(Head(names))),
                                            Cardinality(productions))
          THEN << DefinitionError("LEFT_RECURSION", Head(names)) >> ELSE << >>)
         \o validateGrammar(Tail(names), productions)

\* the rule names of a set of productions, in the order of their registration
RECURSIVE InOrder(_, _)
InOrder(names, productions) ==
    IF names = << >> THEN << >>
    ELSE (IF Head(names) \in productions THEN << Head(names) >> ELSE << >>)
         \o InOrder(Tail(names), productions \ { Head(names) })

\* classNameFromInstance that gives an anonymous class a name
classNameFromInstance_NeverEmpty ==
    IF className = "" THEN "anonymous" ELSE className

\* let className = classNameFromInstance(parserInstance): the name of the
\* constructor of the instance, "" when it is an anonymous function
classNameFromInstance ==
    className

\* performSelfAnalysis that validates a grammar the resolver reported errors in
performSelfAnalysis_ValidatesUnresolved(inst, names, c, st, defer) ==
    IF classNameFromInstance = ""
    THEN [cache |-> c, stats |-> st, thrown |-> << "anonymous" >>]
    ELSE IF ~c.analysisDone
    THEN LET ordered == InOrder(names, inst.productions)
             resolverErrors == resolveGrammar(ordered, inst.productions)
             validationErrors == validateGrammar(ordered, inst.productions)
             definitionErrors == c.definitionErrors \o resolverErrors \o validationErrors
             throws == definitionErrors # << >> /\ ~defer
             follows == definitionErrors = << >>
         IN  [cache |-> [c EXCEPT !.analysisDone = TRUE,
                                  !.productions = inst.productions,
                                  !.definitionErrors = definitionErrors,
                                  !.resyncFollows = IF follows THEN computeAllProdsFollows ELSE @],
              stats |-> [st EXCEPT !.analysisLog = @ \o << "clone", "resolver" >>
                                       \o << "validator" >>
                                       \o (IF follows THEN << "follows" >> ELSE << >>),
                                   !.resolverErrors = resolverErrors],
              thrown |-> IF throws THEN definitionErrors ELSE << >>]
    ELSE [cache |-> c, stats |-> st,
          thrown |-> IF c.definitionErrors # << >> /\ ~defer THEN c.definitionErrors ELSE << >>]

\* performSelfAnalysis that analyses the class at every construction
performSelfAnalysis_EveryConstruction(inst, names, c, st, defer) ==
    IF classNameFromInstance = ""
    THEN [cache |-> c, stats |-> st, thrown |-> << "anonymous" >>]
    ELSE IF c.analysisDone \/ ~c.analysisDone
    THEN LET ordered == InOrder(names, inst.productions)
             resolverErrors == resolveGrammar(ordered, inst.productions)
             validated == resolverErrors = << >>
             validationErrors == IF validated THEN validateGrammar(ordered, inst.productions)
                                 ELSE << >>
             definitionErrors == c.definitionErrors \o resolverErrors \o validationErrors
             throws == definitionErrors # << >> /\ ~defer
             follows == definitionErrors = << >>
         IN  [cache |-> [c EXCEPT !.analysisDone = TRUE,
                                  !.productions = inst.productions,
                                  !.definitionErrors = definitionErrors,
                                  !.resyncFollows = IF follows THEN computeAllProdsFollows ELSE @],
              stats |-> [st EXCEPT !.analysisLog = @ \o << "clone", "resolver" >>
                                       \o (IF validated THEN << "validator" >> ELSE << >>)
                                       \o (IF follows THEN << "follows" >> ELSE << >>),
                                   !.resolverErrors = resolverErrors],
              thrown |-> IF throws THEN definitionErrors ELSE << >>]
    ELSE [cache |-> c, stats |-> st,
          thrown |-> IF c.definitionErrors # << >> /\ ~defer THEN c.definitionErrors ELSE << >>]

\* Parser.performSelfAnalysis(parserInstance): what it leaves in the cache and
\* the definition errors it throws (none: << >>)
performSelfAnalysis(inst, names, c, st, defer) ==
    IF classNameFromInstance = ""
    THEN [cache |-> c, stats |-> st, thrown |-> << "anonymous" >>]
    ELSE IF ~c.analysisDone
    THEN LET ordered == InOrder(names, inst.productions)
             resolverErrors == resolveGrammar(ordered, inst.productions)
             validated == resolverErrors = << >>
             validationErrors == IF validated THEN validateGrammar(ordered, inst.productions)
                                 ELSE << >>
             definitionErrors == c.definitionErrors \o resolverErrors \o validationErrors
             throws == definitionErrors # << >> /\ ~defer
             follows == definitionErrors = << >>
         IN  [cache |-> [c EXCEPT !.analysisDone = TRUE,
                                  !.productions = inst.productions,
                                  !.definitionErrors = definitionErrors,
                                  !.resyncFollows = IF follows THEN computeAllProdsFollows ELSE @],
              stats |-> [st EXCEPT !.analysisLog = @ \o << "clone", "resolver" >>
                                       \o (IF validated THEN << "validator" >> ELSE << >>)
                                       \o (IF follows THEN << "follows" >> ELSE << >>),
                                   !.resolverErrors = resolverErrors],
              thrown |-> IF throws THEN definitionErrors ELSE << >>]
    ELSE [cache |-> c, stats |-> st,
          thrown |-> IF c.definitionErrors # << >> /\ ~defer THEN c.definitionErrors ELSE << >>]

\* new G(input, config): the constructor of Parser, the RULE calls of the
\* constructor of the grammar class, then performSelfAnalysis
NewParser(c, st, defect, defer) ==
    LET st1 == [st EXCEPT !.constructions = @ + 1]
        c1 == [c EXCEPT !.hasDefinitionErrors = TRUE]
        reg == RegisterRules(ClassRules(defect),
                             [definedRulesNames |-> << >>, productions |-> { }], c1, st1)
        sa == performSelfAnalysis(reg.inst, ClassRules(defect), reg.cache, reg.stats, defer)
    IN  [cache |-> sa.cache,
         stats |-> [sa.stats EXCEPT !.thrown = Append(@, sa.thrown)],
         thrown |-> sa.thrown]

\* ------------------------------------------------------------------------
\* Init and the operations
\* ------------------------------------------------------------------------
Init ==
    /\ className = "G"
    /\ grammarDefect = "none"
    /\ DEFER_DEFINITION_ERRORS_HANDLING = FALSE
    /\ gast = [prod |-> << >>, clone |-> << >>]
    /\ LET made == NewParser(EmptyCache, EmptyStats, "none", FALSE)
       IN  /\ cache = made.cache
           /\ stats = made.stats
    /\ input \in Inputs(MaxLen)
    /\ recoveryEnabled \in BOOLEAN
    /\ maxLookahead \in 1 .. MaxLookahead
    /\ topRule \in RuleNames
    /\ inputIdx = -1
    /\ savedTokenIdx = -1
    /\ errors = << >>
    /\ RULE_STACK = << >>
    /\ RULE_OCCURRENCE_STACK = << >>
    /\ isBackTrackingStack = << >>
    /\ frames = << >>
    /\ exc = NoException
    /\ ret = "undefined"
    /\ pstate = "idle"
    /\ nextErrId = 1
    /\ raised = << >>
    /\ ev = Event("new", "")

\* the user invokes a rule of the parser: wrappedGrammarRule, up to the body
InvokeRule ==
    /\ pstate = "idle"
    /\ LET st == ruleInvocationStateUpdate(RULE_STACK, RULE_OCCURRENCE_STACK, topRule, 1)
       IN  /\ RULE_STACK' = st.rs
           /\ RULE_OCCURRENCE_STACK' = st.ros
    /\ frames' = << Frame("rule", topRule, RuleDef(topRule), 1, NoRecogState) >>
    /\ pstate' = "parsing"
    /\ ev' = [Event("ruleEntry", "") EXCEPT !.rule = topRule, !.occ = 1]
    /\ UNCHANGED << classVars, cache, stats, raised, input, recoveryEnabled, maxLookahead, topRule, inputIdx, savedTokenIdx,
                    errors, isBackTrackingStack, exc, ret, nextErrId >>

\* SUBRULE<occ>(rule): wrappedGrammarRule, up to the body
SUBRULE ==
    /\ Running
    /\ Cur.type = "NonTerminal"
    /\ LET st == ruleInvocationStateUpdate(RULE_STACK, RULE_OCCURRENCE_STACK, Cur.name, Cur.occ)
       IN  /\ RULE_STACK' = st.rs
           /\ RULE_OCCURRENCE_STACK' = st.ros
    /\ frames' = Append(Advance(frames), Frame("rule", Cur.name, RuleDef(Cur.name), Cur.occ, NoRecogState))
    /\ ev' = [Event("ruleEntry", "") EXCEPT !.rule = Cur.name, !.occ = Cur.occ]
    /\ UNCHANGED << classVars, cache, stats, raised, input, recoveryEnabled, maxLookahead, topRule, inputIdx, savedTokenIdx,
                    errors, isBackTrackingStack, exc, ret, pstate, nextErrId >>

\* CONSUME<occ>(tokClass): consumeInternal
CONSUME ==
    /\ Running
    /\ Cur.type = "Terminal"
    /\ LET r == consumeInternal(Cur.tok, Cur.occ)
       IN  /\ Len(r.errors) <= MaxErrors
           /\ inputIdx' = r.idx
           /\ errors' = r.errors
           /\ nextErrId' = IF r.out = "match" THEN nextErrId ELSE nextErrId + 1
           /\ exc' = IF r.out = "throw" THEN r.e ELSE exc
           /\ frames' = IF r.out = "throw" THEN Unwind(frames) ELSE Norm(Advance(frames))
           /\ ret' = IF r.out = "throw" THEN ret ELSE "token"
           /\ raised' = IF r.out = "throw" /\ ~isBackTracking THEN Append(raised, r.e.id) ELSE raised
           /\ ev' = [Event("CONSUME", r.out) EXCEPT
                        !.tokClass = Cur.tok, !.occ = Cur.occ, !.tok = r.tok, !.e = r.e,
                        !.follows = IF r.out = "match" THEN { }
                                    ELSE getFollowsForInRuleRecovery(Cur.tok, Cur.occ)]
    /\ UNCHANGED << classVars, cache, stats, input, recoveryEnabled, maxLookahead, topRule,
                    savedTokenIdx, RULE_STACK, RULE_OCCURRENCE_STACK, isBackTrackingStack, pstate >>

\* user code of a rule body that is no DSL call; it may throw an Error, and
\* it may hand an Error that is no recognition exception to SAVE_ERROR
UserCode ==
    /\ Running
    /\ Cur.type = "Action"
    /\ \E does \in { "return", "throw", "saveError" } :
        LET error == NewException("Error", NewEOF, nextErrId)
            saves == does = "saveError"
            throws == does = "throw" \/ (saves /\ ~isRecognitionException(error))
        IN  /\ errors' = IF saves THEN SAVE_ERROR(errors, error, RULE_STACK, RULE_OCCURRENCE_STACK)
                          ELSE errors
            /\ exc' = CASE does = "throw" -> error
                        [] saves /\ throws -> NewException("Error", NewEOF, nextErrId + 1)
                        [] OTHER -> exc
            /\ nextErrId' = CASE does = "throw" -> nextErrId + 1
                              [] saves -> nextErrId + 2
                              [] OTHER -> nextErrId
            /\ frames' = IF throws THEN Unwind(frames) ELSE Norm(Advance(frames))
            /\ ev' = [Event("userCode", does) EXCEPT !.e = IF saves THEN error ELSE NoException]
    /\ UNCHANGED << classVars, cache, stats, raised, input, recoveryEnabled, maxLookahead, topRule, inputIdx, savedTokenIdx,
                    RULE_STACK, RULE_OCCURRENCE_STACK, isBackTrackingStack, ret, pstate >>

\* reSyncEnabledFor without the special case of the first invoked rule
reSyncEnabledFor_NotForcedOnFirstRule(ruleName) ==
    RuleResyncEnabled(ruleName) /\ ~isBackTracking /\ recoveryEnabled

\* is re-sync recovery enabled for this invocation of the rule
reSyncEnabledFor(ruleName) ==
    LET isFirstInvokedRule == Len(RULE_STACK) = 1
    IN  isFirstInvokedRule
        \/ (RuleResyncEnabled(ruleName) /\ ~isBackTracking /\ recoveryEnabled)

\* wrappedGrammarRule: the body returned; the finally block
RuleReturn ==
    /\ pstate = "parsing"
    /\ exc = NoException
    /\ frames # << >>
    /\ Top.k = "rule"
    /\ Top.pc > Len(Top.def)
    /\ LET fin == ruleFinallyStateUpdate(RULE_STACK, RULE_OCCURRENCE_STACK, inputIdx, errors, nextErrId)
       IN  /\ RULE_STACK' = fin.rs
           /\ RULE_OCCURRENCE_STACK' = fin.ros
           /\ errors' = fin.errors
           /\ nextErrId' = fin.nextErrId
    /\ frames' = Norm(DropLast(frames))
    /\ ret' = "ruleResult"
    /\ pstate' = IF Len(frames) = 1 THEN "returned" ELSE pstate
    /\ ev' = [Event("ruleExit", "return") EXCEPT
                 !.rule = Top.name, !.occ = Top.occ, !.atCall = Top.atCall]
    /\ UNCHANGED << classVars, cache, stats, raised, input, recoveryEnabled, maxLookahead, topRule, inputIdx, savedTokenIdx,
                    isBackTrackingStack, exc >>

\* wrappedGrammarRule: the body threw; the catch block, then the finally block
RuleCatch ==
    /\ pstate = "parsing"
    /\ exc # NoException
    /\ frames # << >>
    /\ Top.k = "rule"
    /\ LET tryReSync == reSyncEnabledFor(Top.name) /\ isRecognitionException(exc)
           reSyncTokType == IF tryReSync THEN findReSyncTokenType ELSE ""
           handled == tryReSync /\ isInCurrentRuleReSyncSet(reSyncTokType)
           synced == IF handled THEN reSyncTo(reSyncTokType)
                     ELSE [idx |-> inputIdx, resyncedTokens |-> << >>]
           errs == IF handled THEN SetResyncedTokens(errors, exc.id, synced.resyncedTokens)
                   ELSE errors
           fin == ruleFinallyStateUpdate(RULE_STACK, RULE_OCCURRENCE_STACK, synced.idx, errs, nextErrId)
       IN  /\ inputIdx' = synced.idx
           /\ RULE_STACK' = fin.rs
           /\ RULE_OCCURRENCE_STACK' = fin.ros
           /\ errors' = fin.errors
           /\ nextErrId' = fin.nextErrId
           /\ exc' = IF handled THEN NoException ELSE exc
           /\ ret' = IF handled THEN "recoveryValue" ELSE ret
           /\ frames' = IF handled THEN Norm(DropLast(frames)) ELSE Unwind(DropLast(frames))
           /\ pstate' = IF Len(frames) > 1 THEN pstate
                        ELSE IF handled THEN "returned" ELSE "threw"
           /\ ev' = [Event("ruleExit", IF handled THEN "recovered" ELSE "rethrow") EXCEPT
                        !.rule = Top.name, !.occ = Top.occ, !.atCall = Top.atCall,
                        !.e = IF handled THEN [exc EXCEPT !.resyncedTokens = synced.resyncedTokens]
                              ELSE exc,
                        !.resyncTo = reSyncTokType]
    /\ UNCHANGED << classVars, cache, stats, raised, input, recoveryEnabled, maxLookahead, topRule, savedTokenIdx,
                    isBackTrackingStack >>

\* reloadRecogState that leaves the lexer state as it is
reloadRecogState_KeepsInputIdx(newState) ==
    [errors |-> newState.errors, inputIdx |-> inputIdx, RULE_STACK |-> newState.RULE_STACK]

\* what reloadRecogState assigns
reloadRecogState(newState) ==
    [errors |-> newState.errors, inputIdx |-> newState.lexerState, RULE_STACK |-> newState.RULE_STACK]

\* the predicate of an OPTION is a BACKTRACK decision function: it is called,
\* pushes its marker, saves the state and invokes the rule (occurrence 1)
BACKTRACK ==
    /\ Running
    /\ Cur.type = "Option"
    /\ Cur.pred # ""
    /\ Top.ph = 0
    /\ isBackTrackingStack' = Append(isBackTrackingStack, 1)
    /\ LET st == ruleInvocationStateUpdate(RULE_STACK, RULE_OCCURRENCE_STACK, Cur.pred, 1)
       IN  /\ RULE_STACK' = st.rs
           /\ RULE_OCCURRENCE_STACK' = st.ros
    /\ frames' = [frames EXCEPT ![Len(frames)].ph = 1]
                 \o << Frame("bt", Cur.pred, << >>, 0, saveRecogState),
                       [Frame("rule", Cur.pred, RuleDef(Cur.pred), 1, NoRecogState)
                          EXCEPT !.atCall.bt = @ + 1] >>
    /\ ev' = [Event("ruleEntry", "backtrack") EXCEPT !.rule = Cur.pred, !.occ = 1]
    /\ UNCHANGED << classVars, cache, stats, raised, input, recoveryEnabled, maxLookahead, topRule, inputIdx, savedTokenIdx,
                    errors, exc, ret, pstate, nextErrId >>

\* the BACKTRACK decision function: the rule returned, isValid(ruleResult) is
\* the result; the finally block
BacktrackReturn ==
    /\ pstate = "parsing"
    /\ exc = NoException
    /\ frames # << >>
    /\ Top.k = "bt"
    /\ \E isValid \in BOOLEAN :
        /\ ret' = IF isValid THEN "true" ELSE "false"
        /\ ev' = [Event("BACKTRACK", IF isValid THEN "true" ELSE "false") EXCEPT
                     !.rule = Top.name, !.atCall = Top.atCall]
        /\ stats' = IF isValid THEN stats
                    ELSE [stats EXCEPT !.refused = @ \cup { stats.constructions }]
    /\ LET st == reloadRecogState(Top.orgState)
       IN  /\ errors' = st.errors
           /\ inputIdx' = st.inputIdx
           /\ RULE_STACK' = st.RULE_STACK
    /\ isBackTrackingStack' = dropRight(isBackTrackingStack)
    /\ frames' = DropLast(frames)
    /\ UNCHANGED << classVars, cache, raised, input, recoveryEnabled, maxLookahead, topRule, savedTokenIdx,
                    RULE_OCCURRENCE_STACK, exc, pstate, nextErrId >>

\* the BACKTRACK decision function: the rule threw; a recognition exception
\* gives false, any other exception is thrown on; the finally block
BacktrackCatch ==
    /\ pstate = "parsing"
    /\ exc # NoException
    /\ frames # << >>
    /\ Top.k = "bt"
    /\ LET caught == isRecognitionException(exc)
       IN  /\ exc' = IF caught THEN NoException ELSE exc
           /\ ret' = IF caught THEN "false" ELSE ret
           /\ frames' = IF caught THEN DropLast(frames) ELSE Unwind(DropLast(frames))
           /\ ev' = [Event("BACKTRACK", IF caught THEN "caught" ELSE "rethrow") EXCEPT
                        !.rule = Top.name, !.atCall = Top.atCall, !.e = exc]
    /\ LET st == reloadRecogState(Top.orgState)
       IN  /\ errors' = st.errors
           /\ inputIdx' = st.inputIdx
           /\ RULE_STACK' = st.RULE_STACK
    /\ isBackTrackingStack' = dropRight(isBackTrackingStack)
    /\ UNCHANGED << classVars, cache, stats, raised, input, recoveryEnabled, maxLookahead, topRule, savedTokenIdx,
                    RULE_OCCURRENCE_STACK, pstate, nextErrId >>

\* OPTION<occ>(predicate?, action): optionInternal, once the predicate (if any)
\* has returned
OPTION ==
    /\ Running
    /\ Cur.type = "Option"
    /\ Cur.pred = "" \/ Top.ph = 1
    /\ \E la \in { getLookaheadFuncForOption(cache, stats, Cur.occ) } :
       \E decision \in { LookaheadMatches(inputIdx, LaFuncPaths(la.laFunc)) } :
       \E taken \in { (Cur.pred # "" => ret = "true") /\ decision } :
           /\ frames' = IF taken
                        THEN Norm(Append(Advance(frames), Frame("seq", "", Cur.def, Cur.occ, NoRecogState)))
                        ELSE Norm(Advance(frames))
           /\ ret' = IF taken THEN "true" ELSE "false"
           /\ cache' = la.cache
           /\ stats' = la.stats
           /\ ev' = [Event("OPTION", IF taken THEN "true" ELSE "false") EXCEPT
                        !.occ = Cur.occ, !.key = la.key, !.decision = decision]
    /\ UNCHANGED << classVars, raised, input, recoveryEnabled, maxLookahead, topRule, inputIdx,
                    savedTokenIdx, errors, RULE_STACK, RULE_OCCURRENCE_STACK, isBackTrackingStack,
                    exc, pstate, nextErrId >>

\* OR<occ>(alts): orInternal, up to the body of the chosen alternative
OR ==
    /\ Running
    /\ Cur.type = "Alternation"
    /\ \E la \in { getLookaheadFuncForOr(cache, stats, Cur.occ) } :
       \E altToTake \in { OrLookahead(inputIdx, LaFuncPathsPerAlt(la.laFunc)) } :
       \E noAlt \in { raiseNoAltException(Cur.occ) } :
       \E throws \in { altToTake = -1 } :
           /\ Len(errors) < MaxErrors
           /\ errors' = IF throws THEN noAlt.errors ELSE errors
           /\ nextErrId' = IF throws THEN nextErrId + 1 ELSE nextErrId
           /\ exc' = IF throws THEN noAlt.e ELSE exc
           /\ raised' = IF throws /\ ~isBackTracking THEN Append(raised, noAlt.e.id) ELSE raised
           /\ frames' = IF throws THEN Unwind(frames)
                        ELSE Norm(Append(Advance(frames),
                                         Frame("seq", "", Cur.def[altToTake + 1].def, Cur.occ,
                                               NoRecogState)))
           /\ cache' = la.cache
           /\ stats' = la.stats
           /\ ev' = [Event("OR", IF throws THEN "throw" ELSE "alt") EXCEPT
                        !.occ = Cur.occ, !.key = la.key, !.altToTake = altToTake,
                        !.e = IF throws THEN noAlt.e ELSE NoException]
    /\ UNCHANGED << classVars, input, recoveryEnabled, maxLookahead, topRule, inputIdx, savedTokenIdx,
                    RULE_STACK, RULE_OCCURRENCE_STACK, isBackTrackingStack, ret, pstate >>

\* MANY<occ>(predicate?, action): one test of the loop of manyInternal; when
\* the loop ends, the in-repetition recovery, which may call MANY<occ> again
MANY ==
    /\ Running
    /\ Cur.type = "Repetition"
    /\ \E la \in { getLookaheadFuncForMany(cache, stats, Cur.occ) } :
       \E lookaheadFunction \in { LoopLookahead(LaFuncPaths(la.laFunc), Cur.pred, "") } :
       \E iterate \in { CallLookahead(lookaheadFunction, inputIdx, errors) } :
       \E rec \in { IF iterate
                    THEN [out |-> "none", idx |-> inputIdx, savedTokenIdx |-> savedTokenIdx,
                          errors |-> errors, nextErrId |-> nextErrId, cache |-> la.cache]
                    ELSE afterRepetition(la.cache, lookaheadFunction, Cur.type, Cur.occ) } :
           /\ Len(rec.errors) <= MaxErrors
           /\ inputIdx' = rec.idx
           /\ savedTokenIdx' = rec.savedTokenIdx
           /\ errors' = rec.errors
           /\ nextErrId' = rec.nextErrId
           /\ frames' = IF iterate THEN Iterate(frames, << >>)
                        ELSE IF rec.out = "reenter" THEN Reenter(frames)
                        ELSE Norm(Advance(frames))
           /\ cache' = rec.cache
           /\ stats' = la.stats
           /\ ev' = [Event("MANY", IF iterate THEN "iterate" ELSE rec.out) EXCEPT
                        !.occ = Cur.occ, !.key = la.key, !.decision = iterate,
                        !.iters = Top.iters]
    /\ UNCHANGED << classVars, raised, input, recoveryEnabled, maxLookahead, topRule, RULE_STACK,
                    RULE_OCCURRENCE_STACK, isBackTrackingStack, exc, ret, pstate >>

\* AT_LEAST_ONE<occ>(predicate?, action): one test of atLeastOneInternal: the
\* first one, which throws when it fails, or one of the loop, after which comes
\* the in-repetition recovery
AT_LEAST_ONE ==
    /\ Running
    /\ Cur.type = "RepetitionMandatory"
    /\ \E la \in { getLookaheadFuncForAtLeastOne(cache, stats, Cur.occ) } :
       \E lookAheadFunc \in { LoopLookahead(LaFuncPaths(la.laFunc), Cur.pred, "") } :
       \E iterate \in { CallLookahead(lookAheadFunc, inputIdx, errors) } :
       \E first \in { Top.ph = 0 } :
       \E throws \in { first /\ ~iterate } :
       \E early \in { raiseEarlyExitException(Cur.occ) } :
       \E rec \in { IF iterate \/ first
                    THEN [out |-> "none", idx |-> inputIdx, savedTokenIdx |-> savedTokenIdx,
                          errors |-> errors, nextErrId |-> nextErrId, cache |-> la.cache]
                    ELSE afterRepetition(la.cache, lookAheadFunc, Cur.type, Cur.occ) } :
           /\ Len(rec.errors) <= MaxErrors
           /\ Len(errors) < MaxErrors
           /\ inputIdx' = rec.idx
           /\ savedTokenIdx' = rec.savedTokenIdx
           /\ errors' = IF throws THEN early.errors ELSE rec.errors
           /\ nextErrId' = IF throws THEN nextErrId + 1 ELSE rec.nextErrId
           /\ exc' = IF throws THEN early.e ELSE exc
           /\ raised' = IF throws /\ ~isBackTracking THEN Append(raised, early.e.id) ELSE raised
           /\ frames' = IF throws THEN Unwind(frames)
                        ELSE IF iterate THEN Iterate(frames, << >>)
                        ELSE IF rec.out = "reenter" THEN Reenter(frames)
                        ELSE Norm(Advance(frames))
           /\ cache' = rec.cache
           /\ stats' = la.stats
           /\ ev' = [Event("AT_LEAST_ONE", IF throws THEN "throw"
                                           ELSE IF iterate THEN "iterate" ELSE rec.out) EXCEPT
                        !.occ = Cur.occ, !.key = la.key, !.decision = iterate, !.first = first,
                        !.iters = Top.iters, !.e = IF throws THEN early.e ELSE NoException]
    /\ UNCHANGED << classVars, input, recoveryEnabled, maxLookahead, topRule, RULE_STACK,
                    RULE_OCCURRENCE_STACK, isBackTrackingStack, ret, pstate >>

\* manySepFirstInternal that goes on while the first iteration decision holds
SepRepetition_LoopsOnFirstDecision(mandatory) ==
    LET first == Top.ph = 0
        separatorLookAheadFunc == LoopLookahead({ }, "", Cur.tok)
    IN  Bind(IF mandatory THEN getLookaheadFuncForAtLeastOneSep(cache, stats, Cur.occ)
             ELSE getLookaheadFuncForManySep(cache, stats, Cur.occ), LAMBDA la :
        Bind(LookaheadMatches(inputIdx, LaFuncPaths(la.laFunc)), LAMBDA firstIterationLaFunc :
        Bind(firstIterationLaFunc, LAMBDA iterate :
        Bind(IF iterate \/ first
             THEN [out |-> "none", idx |-> inputIdx, savedTokenIdx |-> savedTokenIdx,
                   errors |-> errors, nextErrId |-> nextErrId,
                   cache |-> IF first THEN la.cache ELSE cache]
             ELSE afterRepetition(cache, separatorLookAheadFunc, Cur.type, Cur.occ), LAMBDA rec :
        Bind(FALSE, LAMBDA consumes :
            [first |-> first, iterate |-> iterate, throws |-> first /\ ~iterate /\ mandatory,
             rec |-> rec, consumes |-> consumes, key |-> IF first THEN la.key ELSE "",
             separator |-> IF consumes THEN << LA(rec.idx, 1) >> ELSE << >>,
             idx |-> IF consumes THEN consumeToken(rec.idx) ELSE rec.idx,
             stats |-> IF first THEN la.stats ELSE stats])))))

\* one test of manySepFirstInternal / atLeastOneSepFirstInternal (mandatory):
\* the decision for the first iteration, or the test for the separator before
\* a further one; the separator is consumed with CONSUME(separator).  When the
\* loop ends comes the in-repetition recovery, which may go on with
\* repetitionSepSecondInternal at a later separator
SepRepetition(mandatory) ==
    LET first == Top.ph = 0
        separatorLookAheadFunc == LoopLookahead({ }, "", Cur.tok)
    IN  Bind(IF mandatory THEN getLookaheadFuncForAtLeastOneSep(cache, stats, Cur.occ)
             ELSE getLookaheadFuncForManySep(cache, stats, Cur.occ), LAMBDA la :
        Bind(LookaheadMatches(inputIdx, LaFuncPaths(la.laFunc)), LAMBDA firstIterationLaFunc :
        Bind(IF first THEN firstIterationLaFunc
                 ELSE CallLookahead(separatorLookAheadFunc, inputIdx, errors), LAMBDA iterate :
        Bind(IF iterate \/ first
             THEN [out |-> "none", idx |-> inputIdx, savedTokenIdx |-> savedTokenIdx,
                   errors |-> errors, nextErrId |-> nextErrId,
                   cache |-> IF first THEN la.cache ELSE cache]
             ELSE afterRepetition(cache, separatorLookAheadFunc, Cur.type, Cur.occ), LAMBDA rec :
        Bind(~first /\ (iterate \/ rec.out = "reenter"), LAMBDA consumes :
            [first |-> first, iterate |-> iterate, throws |-> first /\ ~iterate /\ mandatory,
             rec |-> rec, consumes |-> consumes, key |-> IF first THEN la.key ELSE "",
             separator |-> IF consumes THEN << LA(rec.idx, 1) >> ELSE << >>,
             idx |-> IF consumes THEN consumeToken(rec.idx) ELSE rec.idx,
             stats |-> IF first THEN la.stats ELSE stats])))))

\* MANY_SEP<occ>(separator, action)
MANY_SEP ==
    /\ Running
    /\ Cur.type = "RepetitionWithSeparator"
    /\ \E r \in { SepRepetition(FALSE) } :
           /\ Len(r.rec.errors) <= MaxErrors
           /\ inputIdx' = r.idx
           /\ savedTokenIdx' = r.rec.savedTokenIdx
           /\ errors' = r.rec.errors
           /\ nextErrId' = r.rec.nextErrId
           /\ frames' = IF r.iterate \/ r.rec.out = "reenter" THEN Iterate(frames, r.separator)
                        ELSE Norm(Advance(frames))
           /\ ret' = IF r.iterate \/ r.rec.out = "reenter" THEN ret ELSE "separatorsResult"
           /\ cache' = r.rec.cache
           /\ stats' = r.stats
           /\ ev' = [Event("MANY_SEP", IF r.iterate THEN "iterate" ELSE r.rec.out) EXCEPT
                        !.occ = Cur.occ, !.key = r.key, !.decision = r.iterate, !.first = r.first,
                        !.tokClass = Cur.tok, !.iters = Top.iters, !.seps = Top.seps]
    /\ UNCHANGED << classVars, raised, input, recoveryEnabled, maxLookahead, topRule, RULE_STACK,
                    RULE_OCCURRENCE_STACK, isBackTrackingStack, exc, pstate >>

\* AT_LEAST_ONE_SEP<occ>(separator, action)
AT_LEAST_ONE_SEP ==
    /\ Running
    /\ Cur.type = "RepetitionMandatoryWithSeparator"
    /\ \E r \in { SepRepetition(TRUE) } :
       \E early \in { raiseEarlyExitException(Cur.occ) } :
           /\ Len(r.rec.errors) <= MaxErrors
           /\ Len(errors) < MaxErrors
           /\ inputIdx' = r.idx
           /\ savedTokenIdx' = r.rec.savedTokenIdx
           /\ errors' = IF r.throws THEN early.errors ELSE r.rec.errors
           /\ nextErrId' = IF r.throws THEN nextErrId + 1 ELSE r.rec.nextErrId
           /\ exc' = IF r.throws THEN early.e ELSE exc
           /\ raised' = IF r.throws /\ ~isBackTracking THEN Append(raised, early.e.id) ELSE raised
           /\ frames' = IF r.throws THEN Unwind(frames)
                        ELSE IF r.iterate \/ r.rec.out = "reenter" THEN Iterate(frames, r.separator)
                        ELSE Norm(Advance(frames))
           /\ ret' = IF r.throws \/ r.iterate \/ r.rec.out = "reenter" THEN ret
                     ELSE "separatorsResult"
           /\ cache' = r.rec.cache
           /\ stats' = r.stats
           /\ ev' = [Event("AT_LEAST_ONE_SEP", IF r.throws THEN "throw"
                                               ELSE IF r.iterate THEN "iterate" ELSE r.rec.out) EXCEPT
                        !.occ = Cur.occ, !.key = r.key, !.decision = r.iterate, !.first = r.first,
                        !.tokClass = Cur.tok, !.iters = Top.iters, !.seps = Top.seps,
                        !.e = IF r.throws THEN early.e ELSE NoException]
    /\ UNCHANGED << classVars, input, recoveryEnabled, maxLookahead, topRule, RULE_STACK,
                    RULE_OCCURRENCE_STACK, isBackTrackingStack, pstate >>

Next ==
    \/ InvokeRule
    \/ SUBRULE
    \/ CONSUME
    \/ UserCode
    \/ RuleReturn
    \/ RuleCatch
    \/ BACKTRACK
    \/ BacktrackReturn
    \/ BacktrackCatch
    \/ OPTION
    \/ OR
    \/ MANY
    \/ AT_LEAST_ONE
    \/ MANY_SEP
    \/ AT_LEAST_ONE_SEP

Spec == Init /\ [][Next]_vars

\* ------------------------------------------------------------------------
\* Several instances of one grammar class, constructed one after the other
\* ------------------------------------------------------------------------
\* the observable state of an instance that did nothing yet
FreshSnapshot == [idx |-> -1, errors |-> << >>, rs |-> << >>, ros |-> << >>, bt |-> 0]

\* the names of the grammar classes: a named constructor and an anonymous one
ClassNames == { "G", "" }

\* no instance of the class exists yet; the class is one of the grammar
\* classes of ClassRules
InitClass ==
    /\ className \in ClassNames
    /\ grammarDefect \in GrammarDefects
    /\ DEFER_DEFINITION_ERRORS_HANDLING \in BOOLEAN
    /\ gast = [prod |-> << >>, clone |-> << >>]
    /\ cache = EmptyCache
    /\ stats = EmptyStats
    /\ input = << >>
    /\ recoveryEnabled = FALSE
    /\ maxLookahead = 1
    /\ topRule = "S"
    /\ inputIdx = -1
    /\ savedTokenIdx = -1
    /\ errors = << >>
    /\ RULE_STACK = << >>
    /\ RULE_OCCURRENCE_STACK = << >>
    /\ isBackTrackingStack = << >>
    /\ frames = << >>
    /\ exc = NoException
    /\ ret = "undefined"
    /\ pstate = "noInstance"
    /\ nextErrId = 1
    /\ raised = << >>
    /\ ev = Event("new", "")

\* new G(input, config), once the instance before it (if any) is done.  The
\* constructor throws the definition errors ("failed") or, when their handling
\* is deferred, leaves an instance that only displays them ("deferred"); the
\* input and the configuration of such an instance are not modelled
Construct ==
    /\ pstate \in { "noInstance", "returned", "threw", "failed", "deferred" }
    /\ stats.constructions < MaxInstances
    /\ \E made \in { NewParser(cache, stats, grammarDefect, DEFER_DEFINITION_ERRORS_HANDLING) } :
           /\ cache' = made.cache
           /\ stats' = made.stats
           /\ IF made.thrown # << >> \/ made.cache.definitionErrors # << >>
              THEN /\ pstate' = IF made.thrown # << >> THEN "failed" ELSE "deferred"
                   /\ UNCHANGED << input, recoveryEnabled, maxLookahead, topRule >>
              ELSE /\ pstate' = "idle"
                   /\ input' \in ClassInputs
                   /\ recoveryEnabled' \in BOOLEAN
                   /\ maxLookahead' \in 1 .. MaxLookahead
                   /\ topRule' \in RuleNames
    /\ inputIdx' = -1
    /\ savedTokenIdx' = -1
    /\ errors' = << >>
    /\ RULE_STACK' = << >>
    /\ RULE_OCCURRENCE_STACK' = << >>
    /\ isBackTrackingStack' = << >>
    /\ frames' = << >>
    /\ exc' = NoException
    /\ ret' = "undefined"
    /\ nextErrId' = 1
    /\ raised' = << >>
    /\ ev' = [Event("new", "") EXCEPT !.pre = FreshSnapshot, !.atCall = FreshSnapshot,
                                      !.preFrames = 0]
    /\ UNCHANGED classVars

NextClass ==
    \/ Construct
    \/ Next

SpecClass == InitClass /\ [][NextClass]_vars

\* ------------------------------------------------------------------------
\* The parser run on JSON-like documents as well
\* ------------------------------------------------------------------------
MaxJsonLen == 3

\* all vectors of at most n tokens of the JSON-like grammar
RECURSIVE JsonInputs(_)
JsonInputs(n) ==
    IF n = 0 THEN { << >> }
    ELSE JsonInputs(n - 1) \cup { Append(v, t) : v \in JsonInputs(n - 1), t \in JsonTokenTypes }

\* { "a": 1 }
JsonWellFormed == << "LCurly", "StringLiteral", "Colon", "NumberLiteral", "RCurly" >>

\* { "arr": [1,2,3], "obj": {"num":666}}
JsonSimple ==
    << "LCurly", "StringLiteral", "Colon", "LSquare", "NumberLiteral", "Comma", "NumberLiteral",
       "Comma", "NumberLiteral", "RSquare", "Comma", "StringLiteral", "Colon", "LCurly",
       "StringLiteral", "Colon", "NumberLiteral", "RCurly", "RCurly" >>

\* { "a": 1    (the closing '}' is missing)
JsonMissingRCurly == << "LCurly", "StringLiteral", "Colon", "NumberLiteral" >>

\* { "a" 1 }
JsonMissingColon == << "LCurly", "StringLiteral", "NumberLiteral", "RCurly" >>

\* [1,,2]
JsonTwoCommas == << "LSquare", "NumberLiteral", "Comma", "Comma", "NumberLiteral", "RSquare" >>

JsonDocuments ==
    { JsonWellFormed, JsonSimple, JsonMissingRCurly, JsonMissingColon, JsonTwoCommas }

\* a new instance of the grammar class, its input a vector of Inputs for a
\* rule of RuleNames and a JSON-like document for a rule of JsonRuleNames
InitJson ==
    /\ className = "G"
    /\ grammarDefect = "none"
    /\ DEFER_DEFINITION_ERRORS_HANDLING = FALSE
    /\ gast = [prod |-> << >>, clone |-> << >>]
    /\ LET made == NewParser(EmptyCache, EmptyStats, "none", FALSE)
       IN  /\ cache = made.cache
           /\ stats = made.stats
    /\ \/ /\ topRule \in RuleNames
          /\ input \in Inputs(MaxLen)
       \/ /\ topRule \in JsonRuleNames
          /\ input \in JsonInputs(MaxJsonLen) \cup JsonDocuments
    /\ recoveryEnabled \in BOOLEAN
    /\ maxLookahead \in 1 .. MaxLookahead
    /\ inputIdx = -1
    /\ savedTokenIdx = -1
    /\ errors = << >>
    /\ RULE_STACK = << >>
    /\ RULE_OCCURRENCE_STACK = << >>
    /\ isBackTrackingStack = << >>
    /\ frames = << >>
    /\ exc = NoException
    /\ ret = "undefined"
    /\ pstate = "idle"
    /\ nextErrId = 1
    /\ raised = << >>
    /\ ev = Event("new", "")

SpecJson == InitJson /\ [][Next]_vars

\* ------------------------------------------------------------------------
\* cloneProduction on GAST objects.  A GAST node is an object: id is its
\* identity, ref the referencedRule of a NonTerminal (the identity of a Rule,
\* NoObject when undefined), tok the terminalType of a Terminal or the
\* separator of a repetition with separator
\* ------------------------------------------------------------------------
MaxGastWidth == 2

NoObject == 0

GastNode(id, type, tok, occ, name, orgText, ref, def) ==
    [id |-> id, type |-> type, tok |-> tok, occ |-> occ, name |-> name,
     orgText |-> orgText, ref |-> ref, def |-> def]

\* the identity of a Rule that is no node of the productions below
OtherRule == 900

RECURSIVE GastSeqs(_, _)
GastSeqs(nodes, n) ==
    IF n = 0 THEN { << >> }
    ELSE GastSeqs(nodes, n - 1) \cup { Append(s, node) : s \in GastSeqs(nodes, n - 1), node \in nodes }

\* the objects of a production get their identities: the root is object id,
\* its i-th child object 10 * id + i
RECURSIVE Allocated(_, _)
Allocated(node, id) ==
    [node EXCEPT !.id = id,
                 !.def = [i \in 1 .. Len(node.def) |-> Allocated(node.def[i], 10 * id + i)]]

\* the productions cloneProduction is called with: Terminals and NonTerminals
\* (unresolved, resolved to the production itself or to another rule), the
\* composite productions over them, and Rules holding one of these
GastInputs ==
    LET leaves ==
            { GastNode(NoObject, "Terminal", tok, occ, "", "", NoObject, << >>) :
                tok \in { "A", "B" }, occ \in { 1, 2 } }
            \cup { GastNode(NoObject, "NonTerminal", "", occ, "X", "", ref, << >>) :
                     occ \in { 1, 2 }, ref \in { NoObject, 1, OtherRule } }
        flats ==
            { GastNode(NoObject, "Flat", "", 0, "", "", NoObject, def) : def \in GastSeqs(leaves, 1) }
        composites ==
            { GastNode(NoObject, type, "", occ, "", "", NoObject, def) :
                type \in { "Option", "Repetition", "RepetitionMandatory" }, occ \in { 1, 2 },
                def \in GastSeqs(leaves, MaxGastWidth) }
            \cup { GastNode(NoObject, type, "C", occ, "", "", NoObject, def) :
                     type \in { "RepetitionWithSeparator", "RepetitionMandatoryWithSeparator" },
                     occ \in { 1, 2 }, def \in GastSeqs(leaves, MaxGastWidth) }
            \cup { GastNode(NoObject, "Alternation", "", occ, "", "", NoObject, def) :
                     occ \in { 1, 2 }, def \in GastSeqs(flats, MaxGastWidth) }
        rules ==
            { GastNode(NoObject, "Rule", "", 0, "S", orgText, NoObject, << prod >>) :
                orgText \in { "", "text" }, prod \in composites \cup leaves }
    IN  { Allocated(prod, 1) : prod \in rules \cup composites \cup leaves }

\* the identities of the objects of a production
RECURSIVE ObjectsOf(_)
ObjectsOf(node) ==
    { node.id } \cup UNION { ObjectsOf(node.def[i]) : i \in 1 .. Len(node.def) }

\* visitNonTerminal that copies the reference to the resolved rule
visitNonTerminal_KeepsReference(node, new) ==
    GastNode(new, "NonTerminal", "", node.occ, node.name, "", node.ref, << >>)

\* new gast.NonTerminal(node.nonTerminalName, undefined, node.occurrenceInParent)
visitNonTerminal(node, new) ==
    GastNode(new, "NonTerminal", "", node.occ, node.name, "", NoObject, << >>)

\* GastCloneVisitor.visit: the clone of the node and the next free identity;
\* the definition is mapped first, then the node is constructed from the
\* fields its visit method passes on
RECURSIVE visit(_, _)
RECURSIVE visitDefinition(_, _)
visit(node, new) ==
    CASE node.type = "NonTerminal" -> [node |-> visitNonTerminal(node, new), new |-> new + 1]
      [] node.type = "Terminal" ->
           [node |-> GastNode(new, "Terminal", node.tok, node.occ, "", "", NoObject, << >>),
            new |-> new + 1]
      [] OTHER ->
           LET definition == visitDefinition(node.def, new)
               id == definition.new
           IN  [node |->
                  CASE node.type = "Flat" ->
                         GastNode(id, "Flat", "", 0, "", "", NoObject, definition.nodes)
                    [] node.type \in { "RepetitionWithSeparator", "RepetitionMandatoryWithSeparator" } ->
                         GastNode(id, node.type, node.tok, node.occ, "", "", NoObject, definition.nodes)
                    [] node.type = "Rule" ->
                         GastNode(id, "Rule", "", 0, node.name, node.orgText, NoObject, definition.nodes)
                    [] OTHER ->
                         GastNode(id, node.type, "", node.occ, "", "", NoObject, definition.nodes),
                new |-> id + 1]

\* map(node.definition, (currSubDef) => this.visit(currSubDef))
visitDefinition(definition, new) ==
    IF definition = << >> THEN [nodes |-> << >>, new |-> new]
    ELSE LET first == visit(Head(definition), new)
             rest == visitDefinition(Tail(definition), first.new)
         IN  [nodes |-> << first.node >> \o rest.nodes, new |-> rest.new]

\* `new` gives an object an identity that no object has
cloneProduction(prod) ==
    LET used == ObjectsOf(prod) \cup { OtherRule }
        last == CHOOSE max \in used : \A id \in used : id <= max
    IN  visit(prod, last + 1).node

\* a production is about to be cloned; the parser is not involved
InitClone ==
    /\ gast \in { [prod |-> prod, clone |-> << >>] : prod \in GastInputs }
    /\ className = "G"
    /\ grammarDefect = "none"
    /\ DEFER_DEFINITION_ERRORS_HANDLING = FALSE
    /\ cache = EmptyCache
    /\ stats = EmptyStats
    /\ input = << >>
    /\ recoveryEnabled = FALSE
    /\ maxLookahead = 1
    /\ topRule = "S"
    /\ inputIdx = -1
    /\ savedTokenIdx = -1
    /\ errors = << >>
    /\ RULE_STACK = << >>
    /\ RULE_OCCURRENCE_STACK = << >>
    /\ isBackTrackingStack = << >>
    /\ frames = << >>
    /\ exc = NoException
    /\ ret = "undefined"
    /\ pstate = "noInstance"
    /\ nextErrId = 1
    /\ raised = << >>
    /\ ev = Event("new", "")

\* clonedProductions.put(key, cloneProduction(value))
CloneProduction ==
    /\ gast.clone = << >>
    /\ gast' = [gast EXCEPT !.clone = << cloneProduction(gast.prod) >>]
    /\ UNCHANGED << className, grammarDefect, DEFER_DEFINITION_ERRORS_HANDLING, cache, stats,
                    input, recoveryEnabled, maxLookahead, topRule, inputIdx, savedTokenIdx,
                    errors, RULE_STACK, RULE_OCCURRENCE_STACK, isBackTrackingStack, frames,
                    exc, ret, pstate, nextErrId, raised, ev >>

SpecClone == InitClone /\ [][CloneProduction]_vars

\* ------------------------------------------------------------------------
\* isOptionalProd on a resolved grammar: the Rules are objects 1 .. 3 and the
\* referencedRule of every NonTerminal is one of them
\* ------------------------------------------------------------------------
MaxRuleWidth == 2

\* the grammars isOptionalProd is called on: the definitions of the first two
\* rules are sequences of leaves or one alternation of two leaves, that of
\* the third one leaf
OptionalInputs ==
    LET terminal == GastNode(NoObject, "Terminal", "A", 1, "", "", NoObject, << >>)
        leaves ==
            { terminal, GastNode(NoObject, "Option", "", 1, "", "", NoObject, << terminal >>) }
            \cup { GastNode(NoObject, "NonTerminal", "", 1, "R", "", ref, << >>) : ref \in 1 .. 3 }
        flats == { GastNode(NoObject, "Flat", "", 0, "", "", NoObject, << leaf >>) : leaf \in leaves }
        bodies ==
            GastSeqs(leaves, MaxRuleWidth)
            \cup { << GastNode(NoObject, "Alternation", "", 1, "", "", NoObject, << a, b >>) >> :
                     a \in flats, b \in flats }
        rule(id, def) == Allocated(GastNode(NoObject, "Rule", "", 0, "R", "", NoObject, def), id)
    IN  { << rule(1, first), rule(2, second), rule(3, << third >>) >> :
            first \in bodies, second \in bodies, third \in leaves }

\* prod.definition: that of the referenced rule for a NonTerminal
definitionOf(grammar, prod) ==
    IF prod.type = "NonTerminal"
    THEN (IF prod.ref \in DOMAIN grammar THEN grammar[prod.ref].def ELSE << >>)
    ELSE prod.def

\* isOptionalProd(prod, alreadyVisited): the result, the array it pushed to,
\* and for the record each NonTerminal it was called with and the calls made.
\* isOptionalSeq is every(definition, isOptionalProd) when the result of an
\* empty definition is true and some(definition, isOptionalProd) when it is
\* false: both stop at the first element that decides
RECURSIVE isOptionalProd(_, _, _)
RECURSIVE isOptionalSeq(_, _, _, _)
\* isOptionalProd that takes a NonTerminal met again for optional
isOptionalProd_AgainIsOptional(grammar, prod, call) ==
    Bind([call EXCEPT !.calls = @ + 1], LAMBDA c :
        IF prod.type \in { "Option", "Repetition", "RepetitionWithSeparator" }
        THEN [c EXCEPT !.optional = TRUE]
        ELSE IF prod.type = "Alternation"
        THEN isOptionalSeq(grammar, prod.def, c, FALSE)
        ELSE IF prod.type = "NonTerminal" /\ (\E i \in 1 .. Len(c.alreadyVisited) : c.alreadyVisited[i] = prod.id)
        THEN [c EXCEPT !.optional = TRUE,
                       !.met = Append(@, [id |-> prod.id, again |-> TRUE, optional |-> TRUE])]
        ELSE IF prod.type = "NonTerminal"
        THEN Bind(isOptionalSeq(grammar, definitionOf(grammar, prod),
                                [c EXCEPT !.alreadyVisited = Append(@, prod.id)], TRUE), LAMBDA r :
                 [r EXCEPT !.met = Append(@, [id |-> prod.id, again |-> FALSE,
                                              optional |-> r.optional])])
        ELSE IF prod.type # "Terminal"
        THEN isOptionalSeq(grammar, prod.def, c, TRUE)
        ELSE [c EXCEPT !.optional = FALSE])

isOptionalProd(grammar, prod, call) ==
    Bind([call EXCEPT !.calls = @ + 1], LAMBDA c :
        IF prod.type \in { "Option", "Repetition", "RepetitionWithSeparator" }
        THEN [c EXCEPT !.optional = TRUE]
        ELSE IF prod.type = "Alternation"
        THEN isOptionalSeq(grammar, prod.def, c, FALSE)
        ELSE IF prod.type = "NonTerminal" /\ (\E i \in 1 .. Len(c.alreadyVisited) : c.alreadyVisited[i] = prod.id)
        THEN [c EXCEPT !.optional = FALSE,
                       !.met = Append(@, [id |-> prod.id, again |-> TRUE, optional |-> FALSE])]
        ELSE IF prod.type = "NonTerminal"
        THEN Bind(isOptionalSeq(grammar, definitionOf(grammar, prod),
                                [c EXCEPT !.alreadyVisited = Append(@, prod.id)], TRUE), LAMBDA r :
                 [r EXCEPT !.met = Append(@, [id |-> prod.id, again |-> FALSE,
                                              optional |-> r.optional])])
        ELSE IF prod.type # "Terminal"
        THEN isOptionalSeq(grammar, prod.def, c, TRUE)
        ELSE [c EXCEPT !.optional = FALSE])

isOptionalSeq(grammar, definition, call, whenEmpty) ==
    IF definition = << >> THEN [call EXCEPT !.optional = whenEmpty]
    ELSE Bind(isOptionalProd(grammar, Head(definition), call), LAMBDA first :
             IF first.optional # whenEmpty THEN first
             ELSE isOptionalSeq(grammar, Tail(definition), first, whenEmpty))

\* a grammar is resolved; isOptionalProd has not been called
InitOptional ==
    /\ gast \in { [prod |-> grammar[1], clone |-> << >>, grammar |-> grammar, call |-> << >>] :
                    grammar \in OptionalInputs }
    /\ className = "G"
    /\ grammarDefect = "none"
    /\ DEFER_DEFINITION_ERRORS_HANDLING = FALSE
    /\ cache = EmptyCache
    /\ stats = EmptyStats
    /\ input = << >>
    /\ recoveryEnabled = FALSE
    /\ maxLookahead = 1
    /\ topRule = "S"
    /\ inputIdx = -1
    /\ savedTokenIdx = -1
    /\ errors = << >>
    /\ RULE_STACK = << >>
    /\ RULE_OCCURRENCE_STACK = << >>
    /\ isBackTrackingStack = << >>
    /\ frames = << >>
    /\ exc = NoException
    /\ ret = "undefined"
    /\ pstate = "noInstance"
    /\ nextErrId = 1
    /\ raised = << >>
    /\ ev = Event("new", "")

\* isOptionalProd(prod), with the default alreadyVisited = []
CallIsOptionalProd ==
    /\ gast.call = << >>
    /\ gast' = [gast EXCEPT !.call =
                  << isOptionalProd(gast.grammar, gast.prod,
                                    [optional |-> FALSE, alreadyVisited |-> << >>,
                                     met |-> << >>, calls |-> 0]) >>]
    /\ UNCHANGED << className, grammarDefect, DEFER_DEFINITION_ERRORS_HANDLING, cache, stats,
                    input, recoveryEnabled, maxLookahead, topRule, inputIdx, savedTokenIdx,
                    errors, RULE_STACK, RULE_OCCURRENCE_STACK, isBackTrackingStack, frames,
                    exc, ret, pstate, nextErrId, raised, ev >>

SpecOptional == InitOptional /\ [][CallIsOptionalProd]_vars

TypeOK ==
    /\ inputIdx \in -1 .. Len(input) + 1
    /\ Len(RULE_STACK) = Len(RULE_OCCURRENCE_STACK)
    /\ pstate \in { "noInstance", "idle", "parsing", "returned", "threw", "failed", "deferred" }

\* ------------------------------------------------------------------------
\* Properties
\* ------------------------------------------------------------------------
Finished == pstate \in { "returned", "threw" }

\* the last operation was a CONSUME whose LA(1) was no instance of the class
ConsumeMismatched ==
    ev.op = "CONSUME" /\ ~InstanceOf(LA(ev.pre.idx, 1), ev.tokClass)

\* ... and LA(1) was an instance of a class that may follow the terminal
MismatchedTokInFollows ==
    \E possibleFollowsTokType \in ev.follows : InstanceOf(LA(ev.pre.idx, 1), possibleFollowsTokType)

\* the errors the last operation appended
AppendedErrors == SubSeq(errors, Len(ev.pre.errors) + 1, Len(errors))

\* the input tokens the last operation moved over
SkippedTokens == [i \in 1 .. (inputIdx - ev.pre.idx) |-> LA(ev.pre.idx, i)]

\* the wrapper of the first invoked rule caught a recognition exception
TopRuleCaught ==
    ev.op = "ruleExit" /\ Len(ev.pre.rs) = 1 /\ isRecognitionException(ev.e)

\* C1: a recognition exception never leaves the wrapper of the first invoked
\* rule, whatever recoveryEnabled and the rule's resyncEnabled are: the wrapper
\* skips the input up to EOF and returns the rule's recoveryValue.
C1_TopRuleAlwaysReSyncs ==
    /\ pstate = "threw" => ~isRecognitionException(exc)
    /\ TopRuleCaught =>
         /\ ev.out = "recovered"
         /\ pstate = "returned"
         /\ exc = NoException
         /\ ret = "recoveryValue"
         /\ ev.resyncTo = EOF
         /\ isAtEndOfInput(inputIdx)

C1_Witness ==
    /\ TopRuleCaught
    /\ ~RuleResyncEnabled(ev.rule)
    /\ ~recoveryEnabled
    /\ inputIdx > ev.pre.idx

\* C2 as stated: with recovery disabled the first recognition exception is
\* raised out of the parse, and errors has length 1.
C2_FirstExceptionRaisedOutOfParse ==
    (Finished /\ ~recoveryEnabled /\ raised # << >>) =>
        /\ pstate = "threw"
        /\ exc.id = raised[1]
        /\ Len(errors) = 1

\* C2 amended: with recovery disabled the parse stops at the first recognition
\* exception, which is not raised out of the parse: the wrapper of the top rule
\* catches it, skips to EOF and returns the recoveryValue; errors is left with
\* that exception only.
C2_FirstExceptionEndsParse ==
    (~recoveryEnabled /\ raised # << >>) =>
        /\ Len(raised) = 1
        /\ pstate # "threw"
        /\ Len(errors) = 1
        /\ errors[1].id = raised[1]
        /\ Finished => (pstate = "returned" /\ ret = "recoveryValue" /\ isAtEndOfInput(inputIdx))

C2_Witness ==
    /\ ~recoveryEnabled
    /\ pstate = "returned"
    /\ raised # << >>
    /\ Len(ev.atCall.rs) = 0
    /\ input # << >>

\* C3: while backtracking no recovery takes place: CONSUME fabricates no token
\* and deletes none, a repetition attempts no in-repetition recovery, and no
\* rule wrapper re-syncs or returns its recoveryValue.
C3_NoRecoveryWhileBacktracking ==
    ev.pre.bt > 0 =>
        /\ ev.op = "CONSUME" =>
             /\ ev.out \in { "match", "throw" }
             /\ ~ev.tok.ins
             /\ inputIdx = ev.pre.idx + (IF ev.out = "match" THEN 1 ELSE 0)
        /\ ev.op = "MANY" => (ev.out \in { "iterate", "none" } /\ inputIdx = ev.pre.idx
                              /\ errors = ev.pre.errors)
        /\ ev.op = "ruleExit" => (ev.out \in { "return", "rethrow" } /\ inputIdx = ev.pre.idx
                                  /\ ret # "recoveryValue")

C3_Witness ==
    /\ ev.pre.bt > 0
    /\ recoveryEnabled
    /\ ConsumeMismatched
    /\ MismatchedTokInFollows
    /\ ev.out = "throw"

\* C4: when a BACKTRACK decision function finishes (true, false, recognition
\* exception caught, other exception thrown on) the input index, errors, both
\* rule stacks and the backtracking depth are what they were before the call.
C4_BacktrackRestoresState ==
    ev.op = "BACKTRACK" =>
        /\ inputIdx = ev.atCall.idx
        /\ errors = ev.atCall.errors
        /\ RULE_STACK = ev.atCall.rs
        /\ RULE_OCCURRENCE_STACK = ev.atCall.ros
        /\ Len(isBackTrackingStack) = ev.atCall.bt

C4_Witness ==
    /\ ev.op = "BACKTRACK"
    /\ ev.out = "caught"
    /\ ev.pre.idx > inputIdx
    /\ Len(ev.pre.errors) > Len(errors)

\* the wrapper of the rule whose body (or catch block) is running
RunningRuleFrame ==
    frames[CHOOSE i \in DOMAIN frames :
              frames[i].k = "rule" /\ \A j \in (i + 1) .. Len(frames) : frames[j].k = "seq"]

\* C5: every exit of a rule invocation leaves RULE_STACK and
\* RULE_OCCURRENCE_STACK as they were before the invocation; while the body
\* runs their tops are the rule's name and the occurrence it was invoked with.
C5_RuleStacksBalanced ==
    /\ ev.op = "ruleExit" =>
         /\ RULE_STACK = ev.atCall.rs
         /\ RULE_OCCURRENCE_STACK = ev.atCall.ros
    /\ (frames # << >> /\ Top.k # "bt") =>
         /\ RULE_STACK # << >>
         /\ RULE_OCCURRENCE_STACK # << >>
         /\ Last(RULE_STACK) = RunningRuleFrame.name
         /\ Last(RULE_OCCURRENCE_STACK) = RunningRuleFrame.occ
         /\ RULE_STACK = Append(RunningRuleFrame.atCall.rs, RunningRuleFrame.name)
         /\ RULE_OCCURRENCE_STACK = Append(RunningRuleFrame.atCall.ros, RunningRuleFrame.occ)

C5_Witness ==
    /\ ev.op = "ruleExit"
    /\ ev.out = "recovered"
    /\ RULE_STACK # << >>
    /\ inputIdx > ev.pre.idx

\* C6: CONSUME(T) with LA(1) an instance of T returns LA(1), advances the input
\* index by one and leaves errors and the rule stacks alone; with LA(1) no
\* instance of T and no recovery allowed it throws a MismatchedTokenException
\* for LA(1), which is the one error it appends, and leaves the input index.
C6_ConsumeContract ==
    ev.op = "CONSUME" =>
        /\ InstanceOf(LA(ev.pre.idx, 1), ev.tokClass) =>
             /\ ev.out = "match"
             /\ ev.tok = LA(ev.pre.idx, 1)
             /\ inputIdx = ev.pre.idx + 1
             /\ errors = ev.pre.errors
             /\ exc = NoException
        /\ (ConsumeMismatched /\ (~recoveryEnabled \/ ev.pre.bt > 0)) =>
             /\ ev.out = "throw"
             /\ exc.type = "MismatchedTokenException"
             /\ exc.token = LA(ev.pre.idx, 1)
             /\ errors = Append(ev.pre.errors, exc)
             /\ inputIdx = ev.pre.idx
        /\ RULE_STACK = ev.pre.rs
        /\ RULE_OCCURRENCE_STACK = ev.pre.ros

C6_Witness ==
    /\ ConsumeMismatched
    /\ ~recoveryEnabled
    /\ ev.out = "throw"
    /\ ev.pre.errors = << >>

\* C7: a mismatching CONSUME(T) that may recover inserts when LA(1) may follow
\* T (also when LA(2) is a T), else deletes when LA(2) is a T; the inserted
\* token is a flagged T and leaves the input index, the deletion returns LA(2)
\* and advances by two; either way one MismatchedTokenException is recorded.
C7_InsertionBeforeDeletion ==
    (ConsumeMismatched /\ recoveryEnabled /\ ev.pre.bt = 0) =>
        /\ MismatchedTokInFollows =>
             /\ ev.out = "insert"
             /\ ev.tok = [t |-> ev.tokClass, pos |-> -1, ins |-> TRUE]
             /\ inputIdx = ev.pre.idx
        /\ (~MismatchedTokInFollows /\ InstanceOf(LA(ev.pre.idx, 2), ev.tokClass)) =>
             /\ ev.out = "delete"
             /\ ev.tok = LA(ev.pre.idx, 2)
             /\ ~ev.tok.ins
             /\ inputIdx = ev.pre.idx + 2
        /\ ev.out \in { "insert", "delete" } =>
             /\ exc = NoException
             /\ ev.e.type = "MismatchedTokenException"
             /\ ev.e.token = LA(ev.pre.idx, 1)
             /\ errors = Append(ev.pre.errors, ev.e)

C7_Witness ==
    /\ ConsumeMismatched
    /\ ev.out = "insert"
    /\ InstanceOf(LA(ev.pre.idx, 2), ev.tokClass)

\* C8: a mismatching CONSUME(T) that may recover but can neither insert nor
\* delete throws the original MismatchedTokenException, which is in errors
\* exactly once, and leaves the input index.
C8_OriginalExceptionThrown ==
    (ConsumeMismatched /\ recoveryEnabled /\ ev.pre.bt = 0
       /\ ~MismatchedTokInFollows /\ ~InstanceOf(LA(ev.pre.idx, 2), ev.tokClass)) =>
        /\ ev.out = "throw"
        /\ exc.type = "MismatchedTokenException"
        /\ exc.token = LA(ev.pre.idx, 1)
        /\ errors = Append(ev.pre.errors, exc)
        /\ Cardinality({ i \in DOMAIN errors : errors[i].id = exc.id }) = 1
        /\ inputIdx = ev.pre.idx

C8_Witness ==
    /\ ConsumeMismatched
    /\ recoveryEnabled
    /\ ev.pre.bt = 0
    /\ ev.out = "throw"
    /\ ev.follows # { }

\* C9: the exit of a rule invocation that empties the rule stack appends one
\* NotAllInputParsedException for LA(1) when LA(1) is not EOF and nothing when
\* it is; the exit of a nested invocation never records one.
C9_NotAllInputParsed ==
    /\ ev.op = "ruleExit" =>
         IF RULE_STACK = << >> /\ ~isAtEndOfInput(inputIdx)
         THEN /\ Len(AppendedErrors) = 1
              /\ AppendedErrors[1].type = "NotAllInputParsedException"
              /\ AppendedErrors[1].token = LA(inputIdx, 1)
         ELSE AppendedErrors = << >>
    /\ \A i \in DOMAIN errors :
         errors[i].type = "NotAllInputParsedException" => errors[i].ruleStack = << >>

C9_Witness ==
    /\ ev.op = "ruleExit"
    /\ RULE_STACK = << >>
    /\ ~isAtEndOfInput(inputIdx)
    /\ ev.pre.errors # << >>

\* C10 as stated: after a between-rules re-sync to T, LA(1) is the first token
\* at or after the old LA(1) that is an instance of T and the exception's
\* resyncedTokens are exactly the skipped input tokens, in input order.
C10_ResyncedTokensAreSkippedTokens ==
    (ev.op = "ruleExit" /\ ev.out = "recovered") =>
        /\ InstanceOf(LA(inputIdx, 1), ev.resyncTo)
        /\ \A i \in DOMAIN SkippedTokens : ~InstanceOf(SkippedTokens[i], ev.resyncTo)
        /\ ev.e.resyncedTokens = SkippedTokens

\* the FOLLOW set of the rule invocation on top of the rule stack rs
FollowSetOfInvocation(rs, ros) ==
    IF Len(rs) = 1 THEN { EOF }
    ELSE FollowOfCall(rs[Len(rs)], ros[Len(rs)], rs[Len(rs) - 1], Cardinality(GrammarRuleNames))

\* the FOLLOW sets of all the invocations on the rule stack rs
FollowSetsOfStack(rs, ros) ==
    UNION { FollowSetOfInvocation(SubSeq(rs, 1, i), SubSeq(ros, 1, i)) : i \in 1 .. Len(rs) }

\* the class of the first token at or after LA(1) that is in one of them
ReSyncTokenTypeAt(idx, rs, ros) ==
    LET k == CHOOSE k \in 1 .. Len(input) + 1 :
                 /\ LA(idx, k).t \in FollowSetsOfStack(rs, ros)
                 /\ \A j \in 1 .. k - 1 : LA(idx, j).t \notin FollowSetsOfStack(rs, ros)
    IN  LA(idx, k).t

\* a recognition exception reached the wrapper of a rule, with recovery
\* enabled and outside backtracking
ExceptionAtRuleWrapper ==
    /\ ev.op = "ruleExit"
    /\ isRecognitionException(ev.e)
    /\ recoveryEnabled
    /\ ev.pre.bt = 0

AltsOfLastOr ==
    (CHOOSE prod \in FindProds(RuleDef(Last(ev.pre.rs)), "Alternation", ev.occ) : TRUE).def

\* C12: OR runs exactly one alternative, alts[i] for the index i its decision
\* function returned; when the function returned -1 OR runs no alternative,
\* appends exactly one NoViableAltException carrying LA(1) to errors, leaves
\* the input index unchanged and throws that exception.
C12_OrRunsChosenAlternative ==
    ev.op = "OR" =>
        /\ ev.altToTake \in -1 .. Len(AltsOfLastOr) - 1
        /\ ev.altToTake = OrLookahead(ev.pre.idx, [i \in 1 .. Len(AltsOfLastOr) |->
                                           PathsOfSeq(AltsOfLastOr[i].def, maxLookahead)])
        /\ inputIdx = ev.pre.idx
        /\ IF ev.altToTake # -1
           THEN /\ Len(frames) = ev.preFrames + 1
                /\ Top.k = "seq"
                /\ Top.def = AltsOfLastOr[ev.altToTake + 1].def
                /\ Top.pc = 1
                /\ frames[Len(frames) - 1].pc > Len(frames[Len(frames) - 1].def)
                   \/ frames[Len(frames) - 1].def[frames[Len(frames) - 1].pc].type # "Alternation"
                /\ errors = ev.pre.errors
                /\ exc = NoException
           ELSE /\ Len(frames) <= ev.preFrames
                /\ \A i \in 1 .. Len(frames) : frames[i].k # "seq" \/ i < Len(frames)
                /\ Len(AppendedErrors) = 1
                /\ AppendedErrors[1].type = "NoViableAltException"
                /\ AppendedErrors[1].token = LA(ev.pre.idx, 1)
                /\ exc = AppendedErrors[1]
                /\ exc = ev.e

\* the second alternative of an OR was chosen
C12_Witness ==
    /\ ev.op = "OR"
    /\ ev.altToTake = 1
    /\ Top.def = << NonTerminal("Z", 1) >>

\* the MANY / AT_LEAST_ONE the last operation tested, and its decision
LastLoopProd ==
    CHOOSE prod \in FindProds(RuleDef(Last(ev.pre.rs)),
                              IF ev.op = "MANY" THEN "Repetition" ELSE "RepetitionMandatory",
                              ev.occ) : TRUE

LastLoopTestHolds ==
    /\ PredicateHolds(LastLoopProd.pred, ev.pre.errors)
    /\ LookaheadMatches(ev.pre.idx, PathsOfSeq(LastLoopProd.def, maxLookahead))

\* the in-repetition recovery called the DSL method of the repetition again
RepetitionCalledAgain ==
    /\ Len(frames) = ev.preFrames
    /\ Top.def[Top.pc] = LastLoopProd
    /\ Top.ph = 0
    /\ Top.iters = 0

\* the action of the repetition was started once more
ActionStarted ==
    /\ Len(frames) = ev.preFrames + 1
    /\ Top.k = "seq"
    /\ Top.def = LastLoopProd.def
    /\ Top.pc = 1
    /\ frames[Len(frames) - 1].iters = ev.iters + 1

\* the repetition ended and the call after it is next
RepetitionLeft ==
    \/ Len(frames) < ev.preFrames
    \/ /\ Len(frames) = ev.preFrames
       /\ Top.pc > Len(Top.def) \/ Top.def[Top.pc] # LastLoopProd

\* C13: MANY runs its action once for every loop test in which the user
\* predicate (when given) and the lookahead decision both hold, and stops at
\* the first test in which either fails; after that only the in-repetition
\* recovery (recovery enabled, one error saved) calls the method again, as a
\* new invocation, at a token where the test held before the error was saved;
\* AT_LEAST_ONE does the same, but when its very first test fails it runs no
\* action, appends exactly one EarlyExitException carrying LA(1) to errors,
\* leaves the input index unchanged and throws that exception.
C13_LoopRunsWhileTestHolds ==
    ev.op \in { "MANY", "AT_LEAST_ONE" } =>
        /\ ev.decision = LastLoopTestHolds
        /\ ev.decision =>
              /\ ActionStarted
              /\ inputIdx = ev.pre.idx
              /\ errors = ev.pre.errors
              /\ exc = NoException
        /\ (~ev.decision /\ ev.op = "AT_LEAST_ONE" /\ ev.first) =>
              /\ ev.out = "throw"
              /\ ev.iters = 0
              /\ Len(frames) <= ev.preFrames
              /\ Len(AppendedErrors) = 1
              /\ AppendedErrors[1].type = "EarlyExitException"
              /\ AppendedErrors[1].token = LA(ev.pre.idx, 1)
              /\ inputIdx = ev.pre.idx
              /\ exc = AppendedErrors[1]
        /\ (~ev.decision /\ ~(ev.op = "AT_LEAST_ONE" /\ ev.first)) =>
              /\ exc = NoException
              /\ IF ev.out = "reenter"
                 THEN /\ recoveryEnabled
                      /\ RepetitionCalledAgain
                      /\ Len(AppendedErrors) = 1
                      /\ PredicateHolds(LastLoopProd.pred, ev.pre.errors)
                      /\ LookaheadMatches(inputIdx, PathsOfSeq(LastLoopProd.def, maxLookahead))
                 ELSE RepetitionLeft
        /\ (ev.op = "AT_LEAST_ONE" /\ ev.out # "throw" /\ ~ev.decision) => ev.iters >= 1

\* a MANY with a user predicate ran its action and then stopped although the
\* lookahead decision held: the predicate failed
C13_Witness ==
    /\ ev.op = "MANY"
    /\ LastLoopProd.pred # ""
    /\ ev.iters >= 1
    /\ ~ev.decision
    /\ LookaheadMatches(ev.pre.idx, PathsOfSeq(LastLoopProd.def, maxLookahead))
    /\ ev.out = "none"

\* the MANY_SEP / AT_LEAST_ONE_SEP the last operation tested
LastSepProd ==
    CHOOSE prod \in FindProds(RuleDef(Last(ev.pre.rs)),
                              IF ev.op = "MANY_SEP" THEN "RepetitionWithSeparator"
                              ELSE "RepetitionMandatoryWithSeparator", ev.occ) : TRUE

\* the action of the repetition with separator was started once more
SepActionStarted ==
    /\ Len(frames) = ev.preFrames + 1
    /\ Top.k = "seq"
    /\ Top.def = LastSepProd.def
    /\ Top.pc = 1
    /\ frames[Len(frames) - 1].iters = ev.iters + 1

\* the repetition returned the separators it had collected
SepRepetitionReturned ==
    /\ ret = "separatorsResult"
    /\ \/ Len(frames) < ev.preFrames
       \/ /\ Len(frames) = ev.preFrames
          /\ Top.pc > Len(Top.def) \/ Top.def[Top.pc] # LastSepProd

\* C14: on input needing no recovery, MANY_SEP whose first-iteration decision is
\* false runs no action, consumes nothing and returns an empty list; otherwise
\* it runs the action n >= 1 times, going on exactly while LA(1) is the
\* separator, and returns exactly the n-1 separator tokens it consumed, in
\* input order.  AT_LEAST_ONE_SEP does the same, but throws an
\* EarlyExitException when the first decision is false.
C14_SepRepetition ==
    (ev.op \in { "MANY_SEP", "AT_LEAST_ONE_SEP" } /\ ev.out \notin { "reenter", "exit" }) =>
        /\ ev.decision = IF ev.first
                         THEN LookaheadMatches(ev.pre.idx, PathsOfSeq(LastSepProd.def, maxLookahead))
                         ELSE InstanceOf(LA(ev.pre.idx, 1), LastSepProd.tok)
        /\ Len(ev.seps) = (IF ev.iters = 0 THEN 0 ELSE ev.iters - 1)
        /\ \A i \in 1 .. Len(ev.seps) :
              /\ InstanceOf(ev.seps[i], LastSepProd.tok)
              /\ ev.seps[i] \in { LA(-1, j) : j \in 1 .. ev.pre.idx + 1 }
              /\ \A j \in 1 .. i - 1 : ev.seps[j].pos < ev.seps[i].pos
        /\ (ev.first /\ ev.decision) =>
              /\ ev.iters = 0
              /\ SepActionStarted
              /\ inputIdx = ev.pre.idx
              /\ frames[Len(frames) - 1].seps = << >>
        /\ (ev.first /\ ~ev.decision /\ ev.op = "MANY_SEP") =>
              /\ ev.iters = 0
              /\ ev.seps = << >>
              /\ inputIdx = ev.pre.idx
              /\ errors = ev.pre.errors
              /\ exc = NoException
              /\ SepRepetitionReturned
        /\ (ev.first /\ ~ev.decision /\ ev.op = "AT_LEAST_ONE_SEP") =>
              /\ ev.out = "throw"
              /\ ev.iters = 0
              /\ Len(AppendedErrors) = 1
              /\ AppendedErrors[1].type = "EarlyExitException"
              /\ AppendedErrors[1].token = LA(ev.pre.idx, 1)
              /\ inputIdx = ev.pre.idx
              /\ exc = AppendedErrors[1]
        /\ (~ev.first /\ ev.decision) =>
              /\ ev.iters >= 1
              /\ inputIdx = ev.pre.idx + 1
              /\ SepActionStarted
              /\ frames[Len(frames) - 1].seps = Append(ev.seps, LA(ev.pre.idx, 1))
              /\ errors = ev.pre.errors
        /\ (~ev.first /\ ~ev.decision) =>
              /\ ev.iters >= 1
              /\ inputIdx = ev.pre.idx
              /\ errors = ev.pre.errors
              /\ exc = NoException
              /\ SepRepetitionReturned

\* a MANY_SEP returned one separator after two runs of its action, without
\* any error
C14_Witness ==
    /\ ev.op = "MANY_SEP"
    /\ ev.out = "none"
    /\ ~ev.first
    /\ ev.iters = 2
    /\ Len(ev.seps) = 1
    /\ errors = << >>
    /\ ret = "separatorsResult"

\* C15: for a grammar class with definition errors and deferral disabled, every
\* construction of an instance raises the definition errors, and every later
\* construction raises the same list of errors as the first one.
C15_LaterConstructionsRaiseSameErrors ==
    (grammarDefect # "none" /\ ~DEFER_DEFINITION_ERRORS_HANDLING) =>
        \A i \in 1 .. Len(stats.thrown) :
            /\ stats.thrown[i] # << >>
            /\ stats.thrown[i] = stats.thrown[1]

\* a step is in the log of the self analysis of the class
AnalysisRan(step) == \E i \in 1 .. Len(stats.analysisLog) : stats.analysisLog[i] = step

\* C16: the first self analysis of a grammar class runs the resolver, then the
\* validator, then the FOLLOW computation; the validator runs if and only if
\* the resolver reported no error, and the FOLLOW sets are computed and stored
\* if and only if the definition-error list of the class (rule registration,
\* resolver and validator errors) is empty.
C16_SelfAnalysisSteps ==
    cache.analysisDone =>
        /\ stats.analysisLog \in { << "clone", "resolver" >>,
                                   << "clone", "resolver", "validator" >>,
                                   << "clone", "resolver", "validator", "follows" >> }
        /\ AnalysisRan("validator") <=> stats.resolverErrors = << >>
        /\ AnalysisRan("follows") <=> cache.definitionErrors = << >>
        /\ cache.resyncFollows = (IF cache.definitionErrors = << >>
                                  THEN computeAllProdsFollows ELSE << >>)

\* the validator ran and reported an error, so that no FOLLOW set was computed
C16_Witness ==
    /\ cache.analysisDone
    /\ stats.resolverErrors = << >>
    /\ AnalysisRan("validator")
    /\ ~AnalysisRan("follows")
    /\ \E i \in 1 .. Len(cache.definitionErrors) : cache.definitionErrors[i].type = "LEFT_RECURSION"

\* C17: over the constructions of the instances of one grammar class, the GAST
\* of each rule is built at most once, during the first construction; later
\* constructions build no GAST.
C17_GastBuiltOnce ==
    \A i \in 1 .. Len(stats.gastBuilds) :
        /\ stats.gastBuilds[i][2] = 1
        /\ \A j \in 1 .. i - 1 : stats.gastBuilds[j][1] # stats.gastBuilds[i][1]

\* table t2 has every entry of table t1, unchanged
Extends(t1, t2) ==
    /\ DOMAIN t1 \subseteq DOMAIN t2
    /\ \A key \in DOMAIN t1 : t2[key] = t1[key]

\* a step of a parse, not a construction
ParseStep == stats'.constructions = stats.constructions

KindOfKeys(prodKeys) ==
    CASE prodKeys = "orLookaheadKeys" -> "OR"
      [] prodKeys = "optionLookaheadKeys" -> "OPTION"
      [] prodKeys = "manyLookaheadKeys" -> "MANY"
      [] prodKeys = "manySepLookaheadKeys" -> "MANY_SEP"
      [] prodKeys = "atLeastOneLookaheadKeys" -> "AT_LEAST_ONE"
      [] prodKeys = "atLeastOneSepLookaheadKeys" -> "AT_LEAST_ONE_SEP"

KindOfType(type) ==
    CASE type = "Alternation" -> "OR"
      [] type = "Option" -> "OPTION"
      [] type = "Repetition" -> "MANY"
      [] type = "RepetitionWithSeparator" -> "MANY_SEP"
      [] type = "RepetitionMandatory" -> "AT_LEAST_ONE"
      [] type = "RepetitionMandatoryWithSeparator" -> "AT_LEAST_ONE_SEP"

\* C19: over all instances of a grammar class and all their parses, the
\* decision function of a construct (DSL kind, occurrence index, enclosing
\* rule) is built at most once and then served from the cache, and distinct
\* constructs never share a cached function: the key of a construct is
\* "<KIND><occurrence>IN<ruleName>" and the keys of distinct constructs differ.
C19_DecisionFunctionBuiltOnce ==
    /\ \A i \in 1 .. Len(stats.laBuilds) :
          \A j \in 1 .. i - 1 : stats.laBuilds[j] # stats.laBuilds[i]
    /\ DOMAIN cache.classLAFuncs = { stats.laBuilds[i] : i \in 1 .. Len(stats.laBuilds) }
    /\ \A slot \in DOMAIN cache.lookaheadKeys :
          /\ cache.lookaheadKeys[slot] = KindOfKeys(slot[1]) \o ToString(slot[2]) \o IN_SEP \o slot[3]
          /\ \A other \in DOMAIN cache.lookaheadKeys :
                other # slot => cache.lookaheadKeys[other] # cache.lookaheadKeys[slot]
    /\ \A key \in DOMAIN cache.classLAFuncs :
          LET laFunc == cache.classLAFuncs[key]
          IN  /\ key = KindOfType(laFunc.type) \o ToString(laFunc.occ) \o IN_SEP \o laFunc.ruleName
              /\ FindProds(RuleDef(laFunc.ruleName), laFunc.type, laFunc.occ) # { }
    /\ (ev.op \in { "OPTION", "OR", "MANY", "AT_LEAST_ONE" } /\ pstate # "noInstance") =>
          /\ ev.key \in DOMAIN cache.classLAFuncs
          /\ cache.classLAFuncs[ev.key].ruleName = Last(ev.pre.rs)
          /\ cache.classLAFuncs[ev.key].occ = ev.occ

\* the second instance of the class was served a decision function that the
\* first instance had built, while other functions were built as well
C19_Witness ==
    /\ stats.constructions = 2
    /\ ev.op \in { "OPTION", "OR", "MANY", "AT_LEAST_ONE" }
    /\ ev.key \in DOMAIN cache.classLAFuncs
    /\ cache.classLAFuncs[ev.key].k # maxLookahead
    /\ Len(stats.laBuilds) >= 2

\* the classes of the tokens a decision may look at, and all such windows
WindowTypes == TokenTypes \cup { EOF }

Windows == [1 .. MaxLookahead -> WindowTypes]

\* the lookahead window of the last operation
ActualWindow == [i \in 1 .. MaxLookahead |-> LA(ev.pre.idx, i).t]

\* does the window begin one of the paths
WindowMatches(window, paths) ==
    \E path \in paths :
        /\ path # << >>
        /\ \A i \in 1 .. Len(path) : window[i] = path[i] \/ SuperOf(window[i]) = path[i]

\* the result of a cached decision function on a window: the index of the
\* alternative for an OR (-1: none), 1 / 0 for the other DSL kinds
DecisionOn(laFunc, window) ==
    IF laFunc.type = "Alternation"
    THEN LET pathsPerAlt == LaFuncPathsPerAlt(laFunc)
             viable == { i \in 1 .. Len(pathsPerAlt) : WindowMatches(window, pathsPerAlt[i]) }
         IN  IF viable = { } THEN -1 ELSE (CHOOSE i \in viable : \A j \in viable : i <= j) - 1
    ELSE IF WindowMatches(window, LaFuncPaths(laFunc)) THEN 1 ELSE 0

\* a decision function was called by the last operation
DecisionCalled ==
    /\ pstate # "noInstance"
    /\ \/ ev.op \in { "OPTION", "OR", "MANY", "AT_LEAST_ONE" }
       \/ ev.op \in { "MANY_SEP", "AT_LEAST_ONE_SEP" } /\ ev.first

\* C20: the value of a decision function D(KIND, occ) depends only on the
\* tokens LA(1..maxLookahead) of the instance that calls it: on every window
\* with the same first maxLookahead tokens it gives the result it gave the
\* last operation.
C20_DecisionDependsOnLookaheadWindow ==
    DecisionCalled =>
        LET laFunc == cache.classLAFuncs[ev.key]
        IN  /\ ev.op = "OR" => ev.altToTake = DecisionOn(laFunc, ActualWindow)
            /\ ev.op = "OPTION" => ev.decision = (DecisionOn(laFunc, ActualWindow) = 1)
            /\ \A window \in Windows :
                  (\A i \in 1 .. maxLookahead : window[i] = ActualWindow[i]) =>
                      DecisionOn(laFunc, window) = DecisionOn(laFunc, ActualWindow)

\* C21: an exception that is no recognition exception, thrown by the code of a
\* rule body, propagates unchanged out of every enclosing rule wrapper, the one
\* of the first invoked rule included, and out of BACKTRACK: every step after
\* the throw is a wrapper or a BACKTRACK rethrowing it, no wrapper re-syncs or
\* returns a recoveryValue, and the exception is never added to errors.
C21_ForeignExceptionPropagates ==
    [][/\ (exc'.type = "Error" /\ exc.type # "Error") => ev'.op = "userCode"
       /\ exc.type = "Error" =>
             /\ exc' = exc
             /\ ev'.op \in { "ruleExit", "BACKTRACK" }
             /\ ev'.out = "rethrow"
             /\ ev'.e = exc
             /\ ret' = ret
             /\ ev'.op = "ruleExit" => inputIdx' = inputIdx
             /\ \A i \in 1 .. Len(errors') : errors'[i].id # exc.id /\ errors'[i].type # "Error"
             /\ Len(frames') < Len(frames)
             /\ frames' = << >> => pstate' = "threw"
             /\ pstate' # "returned"
    ]_vars

\* an Error thrown by user code while backtracking, with recovery enabled, left
\* the first invoked rule S (through BACKTRACK and the wrappers of Z, Y, X, S)
C21_Witness ==
    /\ pstate = "threw"
    /\ exc.type = "Error"
    /\ recoveryEnabled
    /\ topRule = "S"
    /\ ev.op = "ruleExit"
    /\ ev.out = "rethrow"
    /\ errors = << >>

\* C22: self-analysis of an instance of a grammar class without a name (the
\* empty class name) raises before any of its steps runs: after any number of
\* constructions no clone, resolver, validator or FOLLOW step was executed, no
\* analysis-done flag, productions or FOLLOW sets are recorded for the class,
\* every construction raised the anonymous-class error (deferred handling of
\* definition errors or not) and no instance can parse.
C22_AnonymousClassNotAnalysed ==
    className = "" =>
        /\ stats.analysisLog = << >>
        /\ ~cache.analysisDone
        /\ cache.productions = EmptyCache.productions
        /\ cache.resyncFollows = EmptyCache.resyncFollows
        /\ Len(stats.thrown) = stats.constructions
        /\ \A i \in 1 .. Len(stats.thrown) : stats.thrown[i] = << "anonymous" >>
        /\ pstate \in { "noInstance", "failed" }

\* a second instance of the anonymous class was constructed, definition errors
\* deferred, and its self-analysis raised
C22_Witness ==
    /\ className = ""
    /\ DEFER_DEFINITION_ERRORS_HANDLING
    /\ stats.constructions = 2
    /\ pstate = "failed"
    /\ stats.thrown[2] = << "anonymous" >>

\* the sentences of the grammar: EndsOfSeq(seq, from) is the set of the
\* positions at which a derivation of seq that begins at position from of the
\* input may end (a position is the number of tokens before it)
RECURSIVE EndsOfSeq(_, _)
RECURSIVE EndsOfStar(_, _)
EndsOfProd(prod, from) ==
    CASE prod.type = "Terminal" ->
            IF InstanceOf(LA(from - 1, 1), prod.tok) THEN { from + 1 } ELSE { }
      [] prod.type = "NonTerminal" -> EndsOfSeq(RuleDef(prod.name), from)
      [] prod.type = "Option" -> { from } \cup EndsOfSeq(prod.def, from)
      [] prod.type = "Repetition" -> EndsOfStar(prod.def, from)
      [] prod.type = "RepetitionMandatory" ->
            UNION { EndsOfStar(prod.def, j) : j \in EndsOfSeq(prod.def, from) }
      [] prod.type = "RepetitionWithSeparator" ->
            { from } \cup UNION { EndsOfStar(<< Terminal(prod.tok, 0) >> \o prod.def, j)
                                  : j \in EndsOfSeq(prod.def, from) }
      [] prod.type = "RepetitionMandatoryWithSeparator" ->
            UNION { EndsOfStar(<< Terminal(prod.tok, 0) >> \o prod.def, j)
                    : j \in EndsOfSeq(prod.def, from) }
      [] prod.type = "Alternation" ->
            UNION { EndsOfSeq(prod.def[i].def, from) : i \in 1 .. Len(prod.def) }
      [] OTHER -> { from }

EndsOfSeq(seq, from) ==
    IF seq = << >> THEN { from }
    ELSE UNION { EndsOfSeq(Tail(seq), j) : j \in EndsOfProd(Head(seq), from) }

EndsOfStar(def, from) ==
    { from } \cup UNION { EndsOfStar(def, j) : j \in EndsOfSeq(def, from) \ { from } }

\* the whole input is derived from the rule the user invokes
IsSentence == Len(input) \in EndsOfSeq(RuleDef(topRule), 0)

\* C23: when the input is a sentence of the grammar (of the rule invoked
\* first; a well-formed JSON document for the rules of the JSON-like grammar),
\* then with recovery enabled or disabled errors stays empty (but for what a
\* BACKTRACK in progress takes back when it ends), no recognition exception is
\* raised outside backtracking, every token is consumed by a matching CONSUME
\* or as the separator of a repetition (none is fabricated, none is skipped),
\* the invocation
\* returns the result of the rule with all the input consumed (LA(1) is EOF)
\* and does not throw, as long as the user code of the rules throws no Error
\* and the validity function of a BACKTRACK refuses no rule that parsed.
C23_SentencesParseCleanly ==
    (/\ pstate \in { "parsing", "returned", "threw" }
     /\ IsSentence
     /\ exc.type # "Error"
     /\ stats.constructions \notin stats.refused) =>
        /\ ~isBackTracking => errors = << >>
        /\ raised = << >>
        /\ ev.op = "CONSUME" => /\ ev.out \in { "match", "throw" }
                                /\ ev.out = "throw" => isBackTracking
                                /\ ev.out = "match" => ev.tok = LA(ev.pre.idx, 1) /\ ~ev.tok.ins
        /\ inputIdx > ev.pre.idx =>
              /\ inputIdx = ev.pre.idx + 1
              /\ \/ ev.op = "CONSUME" /\ ev.out = "match"
                 \/ ev.op \in { "MANY_SEP", "AT_LEAST_ONE_SEP" } /\ ev.out = "iterate"
        /\ ev.op = "ruleExit" /\ ev.out # "return" => ev.out = "rethrow"
        /\ pstate = "returned" => /\ inputIdx = Len(input) - 1
                                  /\ LA(inputIdx, 1) = NewEOF
                                  /\ ret = "ruleResult"
        /\ pstate # "threw"

\* the JSON document { "arr": [1,2,3], "obj": {"num":666}} was parsed
C23_Witness ==
    /\ input = JsonSimple
    /\ topRule = "json"
    /\ IsSentence
    /\ pstate = "returned"
    /\ errors = << >>
    /\ inputIdx = Len(input) - 1

\* the parse of the JSON document { "a": 1 with recovery enabled
MissingRCurlyRun ==
    /\ input = JsonMissingRCurly
    /\ topRule \in { "json", "object" }
    /\ recoveryEnabled
    /\ pstate \in { "parsing", "returned", "threw" }

\* C24: with recoveryEnabled = true, the parse of { "a": 1 (the closing '}' is
\* missing) records exactly one error: the only CONSUME that does not match is
\* the one that expects '}', at the end of the input; it throws the
\* MismatchedTokenException that is the one entry of errors from then on, its
\* resyncedTokens stays empty, and the first invoked rule returns its
\* recoveryValue.
C24_MissingRCurlyOneError ==
    MissingRCurlyRun =>
        /\ Len(errors) <= 1
        /\ \A i \in 1 .. Len(errors) :
              /\ errors[i].type = "MismatchedTokenException"
              /\ errors[i].token = NewEOF
              /\ errors[i].resyncedTokens = << >>
        /\ (ev.op = "CONSUME" /\ ev.out # "match") =>
              /\ ev.tokClass = "RCurly"
              /\ ev.out = "throw"
              /\ ev.pre.idx = Len(input) - 1
              /\ ev.pre.errors = << >>
              /\ Len(errors) = 1 /\ errors[1].id = ev.e.id
        /\ errors # << >> => raised = << errors[1].id >>
        /\ pstate # "threw"
        /\ pstate = "returned" =>
              /\ Len(errors) = 1
              /\ ret = "recoveryValue"
              /\ ev.op = "ruleExit" /\ ev.out = "recovered" /\ ev.resyncTo = EOF
              /\ inputIdx = Len(input) - 1

\* the rule json returned its recoveryValue for { "a": 1
C24_Witness ==
    /\ MissingRCurlyRun
    /\ topRule = "json"
    /\ pstate = "returned"
    /\ ret = "recoveryValue"
    /\ Len(errors) = 1
    /\ errors[1].type = "MismatchedTokenException"
    /\ errors[1].resyncedTokens = << >>

\* the parse of the JSON document [1,,2] with recovery enabled
TwoCommasRun ==
    /\ input = JsonTwoCommas
    /\ topRule \in { "json", "array" }
    /\ recoveryEnabled
    /\ pstate \in { "parsing", "returned", "threw" }

\* the one error of the parse of [1,,2]: a MismatchedTokenException at the
\* second comma
TwoCommasOneError ==
    /\ Len(errors) <= 1
    /\ \A i \in 1 .. Len(errors) :
          /\ errors[i].type = "MismatchedTokenException"
          /\ errors[i].token = Tok("Comma", 3)
    /\ pstate # "threw"
    /\ pstate = "returned" => Len(errors) = 1 /\ inputIdx = Len(input) - 1

\* the MANY_SEP of the rule array left its loop
ArrayRepetitionLeft ==
    /\ ev.op = "MANY_SEP"
    /\ Last(ev.pre.rs) = "array"
    /\ ev.out # "iterate"
    /\ ~(ev.first /\ ev.decision)

\* C25 as stated: the parse of [1,,2] records one MismatchedTokenException at
\* the second comma and the action of the MANY_SEP of the array runs twice
\* (the array has two elements).
C25_TwoCommasTwoElements ==
    TwoCommasRun =>
        /\ TwoCommasOneError
        /\ ArrayRepetitionLeft => ev.iters = 2

\* C25: with recoveryEnabled = true the parse of [1,,2] under
\* array := '[' MANY_SEP(Comma, CONSUME(Number)) ']' records exactly one
\* MismatchedTokenException, at the second comma; the CONSUME(Number) that
\* finds the second comma recovers with one inserted Number token (the input
\* index does not move, no token is skipped) and the action of the MANY_SEP runs
\* three times: it is handed the two Number tokens of the input and, between
\* them, the inserted token, and both commas are returned as separators.
C25_TwoCommasInsertedElement ==
    TwoCommasRun =>
        /\ TwoCommasOneError
        /\ (ev.op = "CONSUME" /\ ev.out # "match") =>
              /\ ev.tokClass = "NumberLiteral"
              /\ ev.pre.idx = 2
              /\ ev.out = "insert"
              /\ ev.tok = [Tok("NumberLiteral", -1) EXCEPT !.ins = TRUE]
              /\ inputIdx = ev.pre.idx
              /\ ev.pre.errors = << >>
              /\ Len(errors) = 1
        /\ (ev.op = "CONSUME" /\ ev.out = "match" /\ ev.tokClass = "NumberLiteral") =>
              ev.tok \in { Tok("NumberLiteral", 1), Tok("NumberLiteral", 4) }
        /\ ArrayRepetitionLeft =>
              /\ ev.iters = 3
              /\ ev.seps = << Tok("Comma", 2), Tok("Comma", 3) >>
              /\ ev.out = "none"
        /\ pstate = "returned" => ret = "ruleResult"

\* the rule array returned for [1,,2] with its one error
C25_Witness ==
    /\ TwoCommasRun
    /\ topRule = "array"
    /\ pstate = "returned"
    /\ ret = "ruleResult"
    /\ Len(errors) = 1
    /\ errors[1].token = Tok("Comma", 3)

\* ------------------------------------------------------------------------
\* The parser as a program that keeps running: an operation that can be
\* executed is executed
\* ------------------------------------------------------------------------
FairSpec == Init /\ [][Next]_vars /\ WF_vars(Next)

\* the invocation of the first rule returned, or an Error of the user code left it
Terminated ==
    \/ pstate = "returned"
    \/ pstate = "threw" /\ exc.type = "Error"

\* every repetition on the call stack ran its action at most once per token
\* the parser moved over since the rule or body that holds it was entered
\* (plus the run in progress)
IterationsConsume ==
    \A i \in 1 .. Len(frames) : frames[i].iters <= inputIdx - frames[i].atCall.idx + 1

\* C26: the parse of any token vector from the rule invoked first terminates,
\* with recovery enabled or disabled: the invocation eventually returns (only
\* an Error thrown by user code leaves it as an exception), and until then no
\* repetition runs its action more often than tokens were moved over, so that
\* the number of iterations is linear in the length of the input.
C26_ParseTerminates ==
    /\ <>Terminated
    /\ [](pstate = "parsing" => IterationsConsume)

\* two productions are the same tree: the same variant, occurrence index,
\* separator or terminal type, rule name and text at every node
RECURSIVE SameTree(_, _)
SameTree(a, b) ==
    /\ a.type = b.type
    /\ a.occ = b.occ
    /\ a.tok = b.tok
    /\ a.name = b.name
    /\ a.orgText = b.orgText
    /\ Len(a.def) = Len(b.def)
    /\ \A i \in 1 .. Len(a.def) : SameTree(a.def[i], b.def[i])

\* the nodes of a production
RECURSIVE NodesOf(_)
NodesOf(node) ==
    { node } \cup UNION { NodesOf(node.def[i]) : i \in 1 .. Len(node.def) }

\* C27: cloneProduction returns a deep copy: the clone is the same tree as the
\* original (variant, occurrence index, separator, terminal type, rule name
\* and text of every node), none of its objects is an object of the original
\* (nor two of them the same object), and a NonTerminal of the clone has the
\* name and the occurrence of its counterpart but no referencedRule, also when
\* the original was resolved.
C27_CloneIsDeepCopy ==
    gast.clone # << >> =>
        /\ SameTree(gast.prod, gast.clone[1])
        /\ ObjectsOf(gast.clone[1]) \cap ObjectsOf(gast.prod) = { }
        /\ NoObject \notin ObjectsOf(gast.clone[1])
        /\ Cardinality(ObjectsOf(gast.clone[1])) = Cardinality(NodesOf(gast.clone[1]))
        /\ Cardinality(ObjectsOf(gast.clone[1])) = Cardinality(ObjectsOf(gast.prod))
        /\ \A node \in NodesOf(gast.clone[1]) : node.ref = NoObject

\* a rule whose repetition with separator holds a resolved NonTerminal and a
\* Terminal was cloned
C27_Witness ==
    /\ gast.clone # << >>
    /\ gast.prod.type = "Rule"
    /\ gast.prod.orgText = "text"
    /\ gast.prod.def[1].type = "RepetitionWithSeparator"
    /\ Len(gast.prod.def[1].def) = 2
    /\ gast.prod.def[1].def[1].type = "NonTerminal"
    /\ gast.prod.def[1].def[1].ref = OtherRule
    /\ gast.prod.def[1].def[2].type = "Terminal"
    /\ gast.clone[1].def[1].def[1].name = "X"
    /\ gast.clone[1].def[1].def[1].ref = NoObject

\* the tokens an error can name: the tokens of the input and EOF
OffendingTokens == { LA(i, 1) : i \in -1 .. Len(input) - 1 }

\* the error keeps its token and its context
SameErrorObject(a, b) ==
    /\ a.token = b.token
    /\ a.type = b.type
    /\ a.ruleStack = b.ruleStack
    /\ a.ruleOccurrenceStack = b.ruleOccurrenceStack

\* C28: every error in errors is a recognition exception that carries the
\* offending token (a token of the input or EOF) and a context of two stacks of
\* equal length; when an error is recorded its context is the parser's two
\* stacks of that moment and its token the LA(1) of that moment, and no later
\* step (no push, no pop) alters the token or the context of a recorded error.
\* SAVE_ERROR called with an error that is no recognition exception throws an
\* Error and leaves errors unchanged.
C28_ErrorsCarryTokenAndContext ==
    [][/\ \A i \in 1 .. Len(errors') :
            /\ isRecognitionException(errors'[i])
            /\ errors'[i].token \in OffendingTokens
            /\ Len(errors'[i].ruleStack) = Len(errors'[i].ruleOccurrenceStack)
       /\ \A i \in 1 .. Len(errors') :
            \/ /\ i <= Len(errors)
               /\ errors[i].id = errors'[i].id
               /\ SameErrorObject(errors[i], errors'[i])
            \/ /\ i = Len(errors')
               /\ \A j \in 1 .. Len(errors) : errors[j].id # errors'[i].id
               /\ errors'[i].ruleStack = RULE_STACK'
               /\ errors'[i].ruleOccurrenceStack = RULE_OCCURRENCE_STACK'
               /\ IF errors'[i].type = "NotAllInputParsedException"
                  THEN errors'[i].token = LA(inputIdx', 1) /\ errors'[i].token # NewEOF
                  ELSE errors'[i].token = LA(inputIdx, 1)
       /\ (ev'.op = "userCode" /\ ev'.out = "saveError") =>
            /\ ~isRecognitionException(ev'.e)
            /\ errors' = errors
            /\ exc'.type = "Error"
            /\ exc'.id # ev'.e.id
      ]_vars

\* user code called SAVE_ERROR with a plain Error while errors held an error
\* recorded two rules deep, whose context is no longer the parser's stack:
\* rules were popped and pushed since
C28_Witness ==
    /\ ev.op = "userCode"
    /\ ev.out = "saveError"
    /\ exc.type = "Error"
    /\ Len(errors) = 1
    /\ Len(errors[1].ruleStack) = 2
    /\ Len(errors[1].ruleOccurrenceStack) = 2
    /\ errors[1].ruleStack # RULE_STACK
    /\ errors[1].token \in OffendingTokens \ { NewEOF }

\* the DSL methods that end with the in-repetition recovery
RepetitionOps == { "MANY", "AT_LEAST_ONE", "MANY_SEP", "AT_LEAST_ONE_SEP" }

\* C29: when in-repetition recovery gives up, the input index is what it was
\* before the attempt (the saved index, which the attempt stored), no error
\* was appended to errors and no exception object was made; the repetition
\* then exits without throwing.
C29_GiveUpRestoresIndex ==
    [][(ev'.op \in RepetitionOps /\ ev'.out = "giveup") =>
           /\ recoveryEnabled /\ ~isBackTracking
           /\ inputIdx' = inputIdx
           /\ savedTokenIdx' = inputIdx
           /\ errors' = errors
           /\ nextErrId' = nextErrId
           /\ raised' = raised
           /\ exc' = exc /\ exc = NoException
           /\ Len(frames') <= Len(frames)
      ]_vars

\* a recovery gave up after it had skipped at least one token: LA(1), where
\* the index is back, is not of the re-sync type it stopped at
C29_Witness ==
    /\ ev.op \in RepetitionOps
    /\ ev.out = "giveup"
    /\ pstate = "parsing"
    /\ RULE_STACK # << >>
    /\ inputIdx = ev.pre.idx
    /\ LA(inputIdx, 1) # NewEOF
    /\ ~InstanceOf(LA(inputIdx, 1), findReSyncTokenType)

\* a DSL method's in-repetition recovery re-synced in this step
ReSynced == ev'.op \in RepetitionOps /\ ev'.out \in { "exit", "reenter" }

\* the repetition that was entered again runs its action: at once where the
\* separator is consumed on entry, else in the first test of the new call
ActionRunsOnceMore ==
    /\ (ev'.op \in { "MANY_SEP", "AT_LEAST_ONE_SEP" } /\ ev'.out = "reenter") =>
            /\ Len(frames') = Len(frames) + 1
            /\ inputIdx' > inputIdx + 1
    /\ (ev.op \in { "MANY", "AT_LEAST_ONE" } /\ ev.out = "reenter") =>
            /\ ev'.op = ev.op
            /\ ev'.out = "iterate"
            /\ Len(frames') = Len(frames) + 1

ExpectedAfterRepetition ==
    LET info == NextTerminalAfterProd(Cur.type, Last(RULE_STACK), Cur.occ)
    IN  IF Len(RULE_STACK) = 1 /\ info.isEndOfRule /\ info.token = ""
        THEN [token |-> EOF, occurrence |-> 1]
        ELSE [token |-> info.token, occurrence |-> info.occurrence]

\* what the claim requires of an attempt, on the parser as the repetition exits
RepetitionRecoveryDue ==
    /\ recoveryEnabled
    /\ ExpectedAfterRepetition.token # ""
    /\ ~InstanceOf(LA(inputIdx, 1), ExpectedAfterRepetition.token)
    /\ ~isBackTracking
    /\ ~canRecoverWithSingleTokenInsertion(ExpectedAfterRepetition.token,
            getFollowsForInRuleRecovery(ExpectedAfterRepetition.token,
                                        ExpectedAfterRepetition.occurrence))
    /\ ~canRecoverWithSingleTokenDeletion(ExpectedAfterRepetition.token)

\* C31: in-repetition recovery is attempted (it re-syncs or gives up) after a
\* repetition exits only if recovery is enabled, an expected next terminal is
\* known, LA(1) is no instance of it, the parser is not backtracking and
\* neither single token insertion nor deletion could recover it; a repetition
\* that exits in any other case skips no token, records no error and throws
\* nothing, and these conditions are never met by a loop that ended without an
\* attempt.
C31_RepetitionRecoveryOnlyWhenDue ==
    [][ev'.op \in RepetitionOps =>
          /\ ev'.out \in { "exit", "reenter", "giveup" } => RepetitionRecoveryDue
          /\ ev'.out = "none" =>
                /\ inputIdx' = inputIdx
                /\ errors' = errors
                /\ nextErrId' = nextErrId
                /\ exc' = NoException
                /\ Len(frames') <= Len(frames)
                /\ ~ev'.first => ~RepetitionRecoveryDue
      ]_vars

\* a MANY ended inside a BACKTRACK decision function, with recovery enabled,
\* before a token that is not the terminal expected next: nothing was attempted
C31_Witness ==
    /\ ev.op \in RepetitionOps
    /\ ev.out = "none"
    /\ recoveryEnabled
    /\ isBackTracking
    /\ inputIdx = ev.pre.idx
    /\ errors = ev.pre.errors

\* the positions ahead of the index, up to the first one past the input, and
\* those whose token has a type of the flattened FOLLOW stack
PositionsAhead == 1 .. (Len(input) - inputIdx)

ReSyncPositions == { k \in PositionsAhead : LA(inputIdx, k).t \in flattenFollowSet }

\* C32: for every rule stack of depth >= 1 findReSyncTokenType terminates
\* within the tokens that are left (EOF is in the flattened FOLLOW stack and
\* follows the input) and returns the type of the first token at or after
\* LA(1), EOF once the input is exhausted, whose type is in the flattened
\* FOLLOW stack; what it returns is a member of that stack.
C32_FindReSyncTokenType ==
    (pstate = "parsing" /\ RULE_STACK # << >>) =>
        /\ EOF \in flattenFollowSet
        /\ LA(inputIdx, Len(input) - inputIdx).t = EOF
        /\ ReSyncPositions # { }
        /\ findReSyncTokenType \in flattenFollowSet
        /\ \E k \in ReSyncPositions :
              /\ \A j \in ReSyncPositions : k <= j
              /\ findReSyncTokenType = LA(inputIdx, k).t
        /\ inputIdx >= Len(input) - 1 => findReSyncTokenType = EOF

\* the catch block of an invoked rule is about to look for the re-sync type:
\* the type of LA(1) is in no FOLLOW set of the stack while that of a later
\* token of the input is, so what is found is neither that of LA(1) nor EOF
C32_Witness ==
    /\ pstate = "parsing"
    /\ Len(RULE_STACK) >= 2
    /\ recoveryEnabled
    /\ exc.type = "MismatchedTokenException"
    /\ findReSyncTokenType # EOF
    /\ findReSyncTokenType # LA(inputIdx, 1).t
    /\ LA(inputIdx, 1).t \notin flattenFollowSet

\* the indexes at which errors holds the exception object id
RecordedAt(errs, id) == { j \in 1 .. Len(errs) : errs[j].id = id }

\* the error objects recorded before the step are the first ones after it,
\* each with the token and the context it was recorded with
ErrorsPrefixKept ==
    /\ Len(errors') >= Len(errors)
    /\ \A i \in 1 .. Len(errors) :
          errors'[i].id = errors[i].id /\ SameErrorObject(errors[i], errors'[i])

\* C33: within one parse errors is append-only: every step of a DSL method or
\* of a rule wrapper keeps the error objects recorded so far as the first
\* entries of the list, each with its token and context; only the end of a
\* BACKTRACK decision function takes entries away, and what it leaves is the
\* list as it was when the decision function began.  Every recognition
\* exception thrown outside backtracking is in errors exactly once, and it was
\* recorded, as the last entry, in the step that throws it.
C33_ErrorsAppendOnly ==
    [][/\ ev'.op # "BACKTRACK" => ErrorsPrefixKept
       /\ ev'.op = "BACKTRACK" =>
            /\ Len(errors') <= Len(errors)
            /\ errors' = SubSeq(errors, 1, Len(errors'))
            /\ errors' = Top.orgState.errors
       /\ raised' # raised =>
            /\ raised' = Append(raised, exc'.id)
            /\ ~isBackTracking
            /\ isRecognitionException(exc')
            /\ RecordedAt(errors, exc'.id) = { }
            /\ RecordedAt(errors', exc'.id) = { Len(errors') }
            /\ Len(errors') = Len(errors) + 1
            /\ SameErrorObject(Last(errors'), exc')
       /\ (exc' # exc /\ isRecognitionException(exc') /\ ~isBackTracking) =>
            raised' = Append(raised, exc'.id)
       /\ \A i \in 1 .. Len(raised') : Cardinality(RecordedAt(errors', raised'[i])) = 1
      ]_vars

\* a parse recorded an error without throwing it, then threw a recognition
\* exception outside backtracking that the re-sync of a rule caught: the
\* exception is the second entry of errors, after the error recorded first
C33_Witness ==
    /\ pstate = "returned"
    /\ Len(raised) = 1
    /\ Len(errors) = 2
    /\ errors[1].id # raised[1]
    /\ RecordedAt(errors, raised[1]) = { 2 }
    /\ isRecognitionException(errors[2])

\* how often a step is in the log of the self analysis of the class
TimesRan(step) ==
    Cardinality({ i \in 1 .. Len(stats.analysisLog) : stats.analysisLog[i] = step })

\* C34: over the constructions of the instances of one grammar class the body
\* of the self analysis (clone into the cache, resolver, validator, FOLLOW
\* computation) runs at most once, in the first call of performSelfAnalysis;
\* once it has run, no construction changes the cached productions or the
\* stored FOLLOW sets, so a class whose first analysis found definition errors
\* never has FOLLOW sets stored.
C34_SelfAnalysisRunsOnce ==
    [][/\ stats'.analysisLog # stats.analysisLog =>
            /\ stats.analysisLog = << >>
            /\ ~cache.analysisDone /\ cache'.analysisDone
            /\ stats.thrown = << >>
            /\ stats'.constructions = 1
       /\ cache.analysisDone =>
            /\ cache'.analysisDone
            /\ stats'.analysisLog = stats.analysisLog
            /\ cache'.productions = cache.productions
            /\ cache'.resyncFollows = cache.resyncFollows
            /\ ~AnalysisRan("follows") => cache'.resyncFollows = << >>
       /\ \A step \in { "clone", "resolver", "validator", "follows" } :
            Cardinality({ i \in 1 .. Len(stats'.analysisLog) : stats'.analysisLog[i] = step }) <= 1
      ]_vars

\* the first construction of a class raised its definition errors, and so did
\* a second one, which analysed nothing and stored no FOLLOW set
C34_Witness ==
    /\ stats.constructions = 2
    /\ Len(stats.thrown) = 2
    /\ stats.thrown[1] # << >>
    /\ stats.thrown[2] = stats.thrown[1]
    /\ cache.analysisDone
    /\ TimesRan("clone") = 1
    /\ TimesRan("follows") = 0
    /\ cache.resyncFollows = << >>

\* the decision function the class has cached for the construct of the step
CachedLaFunc == cache'.classLAFuncs[ev'.key]

C36_InputIndexMonotonic ==
    [][/\ inputIdx' >= -1
       /\ inputIdx' <= Len(input) - 1
       /\ ev'.op # "BACKTRACK" => inputIdx' >= inputIdx
       /\ ev'.op = "BACKTRACK" =>
            /\ inputIdx' = Top.orgState.lexerState
            /\ inputIdx' = ev'.atCall.idx
            /\ inputIdx' <= inputIdx
       /\ (ev'.op \in RepetitionOps /\ ev'.out = "giveup") => inputIdx' = inputIdx
       /\ \A idx \in -1 .. Len(input) - 1 :
            /\ idx <= Len(input) - 2 =>
                  /\ SKIP_TOKEN(idx).idx = idx + 1
                  /\ SKIP_TOKEN(idx).tok = LA(idx + 1, 1)
            /\ idx > Len(input) - 2 =>
                  /\ SKIP_TOKEN(idx).idx = idx
                  /\ SKIP_TOKEN(idx).tok = NewEOF
            /\ SKIP_TOKEN(idx).idx <= Len(input) - 1
      ]_vars

\* the re-sync of a rule skipped every token that was left, up to the last
\* one of the input, and stopped there at EOF
C36_Witness ==
    /\ ev.op = "ruleExit"
    /\ ev.out = "recovered"
    /\ ev.resyncTo = EOF
    /\ Len(input) >= 2
    /\ inputIdx = Len(input) - 1
    /\ inputIdx >= ev.pre.idx + 2

\* can the production derive the empty token sequence, when the rules of the
\* set nullable can
RECURSIVE DerivesEmpty(_, _)
DerivesEmpty(node, nullable) ==
    CASE node.type \in { "Option", "Repetition", "RepetitionWithSeparator" } -> TRUE
      [] node.type = "Terminal" -> FALSE
      [] node.type = "NonTerminal" -> node.ref \in nullable
      [] node.type = "Alternation" ->
           \E i \in 1 .. Len(node.def) : DerivesEmpty(node.def[i], nullable)
      [] OTHER -> \A i \in 1 .. Len(node.def) : DerivesEmpty(node.def[i], nullable)

\* the rules of the grammar that derive the empty sequence: the least fixed
\* point, reached after as many rounds as there are rules
RECURSIVE NullableRules(_, _)
NullableRules(grammar, rounds) ==
    IF rounds = 0 THEN { }
    ELSE { r \in DOMAIN grammar : DerivesEmpty(grammar[r], NullableRules(grammar, rounds - 1)) }

CanDeriveEmpty(grammar, prod) == DerivesEmpty(prod, NullableRules(grammar, Len(grammar)))

\* C37: isOptionalProd(prod) is true exactly when prod can derive the empty
\* token sequence, a resolved NonTerminal standing for the definition of the
\* rule it references, also when a rule is reached through more than one
\* NonTerminal.
C37_OptionalIffDerivesEmpty ==
    gast.call # << >> =>
        (gast.call[1].optional <=> CanDeriveEmpty(gast.grammar, gast.prod))

\* the NonTerminals of the grammar, and the largest number of productions in
\* the definition of a rule
NonTerminalsOf(grammar) ==
    UNION { { node.id : node \in { n \in NodesOf(grammar[r]) : n.type = "NonTerminal" } } :
              r \in DOMAIN grammar }

MaxRuleNodes(grammar) ==
    CHOOSE max \in { Cardinality(NodesOf(grammar[r])) - 1 : r \in DOMAIN grammar } :
        \A r \in DOMAIN grammar : Cardinality(NodesOf(grammar[r])) - 1 <= max

\* the calls that expanded a NonTerminal, and those that met one again
Expanded(call) == { i \in 1 .. Len(call.met) : ~call.met[i].again }

MetAgain(call) == { i \in 1 .. Len(call.met) : call.met[i].again }

====
